---- MODULE Spec2Model ----
(***************************************************************************)
(* Kubecraft: tenant registration (internal/registration, pkg/k8s) and the *)
(* per-tenant Minecraft server lifecycle (internal/k8s/server.go,          *)
(* internal/cli/server) against a Kubernetes API server.                   *)
(*                                                                         *)
(* Every call to the API server is one atomic step; a handler or a CLI     *)
(* command is the sequence of its calls.  Names are sequences of           *)
(* one-character strings so that the validators and the "mc-" prefixing    *)
(* are computed, character by character, as the code computes them.        *)
(***************************************************************************)
EXTENDS Integers, Sequences, FiniteSets, TLC

(* ------------------------------------------------------------------ *)
(* internal/config/constants.go                                        *)
(* ------------------------------------------------------------------ *)
MaxUsers == 15
MinUsernameLength == 3
MaxUsernameLength == 16
McNodePortRangeMin == 30000
McNodePortRangeMax == 30015
RegistrationServicePort == 30099
MinServerNameLength == 3
MaxServerNameLength == 16
CapacityThreshold == 4096
TotalAvailableRAM == 14336
MaxAttempts == 30

NamespacePrefix == <<"m", "c", "-">>
SystemNamespace ==
    <<"k", "u", "b", "e", "c", "r", "a", "f", "t", "-", "s", "y", "s", "t", "e", "m">>
CommonLabelValue == "kubecraft"
CommonLabelValuePod == "minecraft"
UserRoleName == "minecraft-manager"
QuotaName == "mc-compute-resources"
BindingPrefix == <<"b", "i", "n", "d", "i", "n", "g", "-">>

\* resource.MustParse(ServerMemoryRequest).Value() and
\* resource.MustParse(ServerMemoryLimit).Value(), in KiB ("2Gi", "4Gi").
ServerMemoryRequestKi == 2 * 1024 * 1024
ServerMemoryLimitKi == 4 * 1024 * 1024

ReservedUserNames ==
    { <<"s", "y", "s", "t", "e", "m">>,
      <<"a", "d", "m", "i", "n">>,
      <<"r", "o", "o", "t">>,
      <<"d", "e", "f", "a", "u", "l", "t">>,
      <<"k", "u", "b", "e", "-", "s", "y", "s", "t", "e", "m">>,
      <<"k", "u", "b", "e", "-", "p", "u", "b", "l", "i", "c">>,
      <<"k", "u", "b", "e", "-", "n", "o", "d", "e", "-", "l", "e", "a", "s", "e">>,
      <<"k", "u", "b", "e", "c", "r", "a", "f", "t">>,
      SystemNamespace }

(* ------------------------------------------------------------------ *)
(* Characters                                                          *)
(* ------------------------------------------------------------------ *)
LowerAZ ==
    { "a", "b", "c", "d", "e", "f", "g", "h", "i", "j", "k", "l", "m",
      "n", "o", "p", "q", "r", "s", "t", "u", "v", "w", "x", "y", "z" }
Digit09 == { "0", "1", "2", "3", "4", "5", "6", "7", "8", "9" }
DigitChar == <<"0", "1", "2", "3", "4", "5", "6", "7", "8", "9">>

(* ------------------------------------------------------------------ *)
(* Bounds of the model                                                 *)
(* ------------------------------------------------------------------ *)
\* concurrent requests in flight in the registration server
NumHandlers == 2
\* tenants onboarded before the behaviours start (registration runs)
PreTenants == 13

Handlers == 1 .. NumHandlers

\* command-line clients running at the same time, one tenant each
NumClients == 2
\* tenants whose server is up before the behaviours start (server runs)
RunningServers == 5

Clients == 1 .. NumClients

\* "t00", "t01", ...: the tenants onboarded earlier
PreName(i) == <<"t", DigitChar[(i \div 10) + 1], DigitChar[(i % 10) + 1]>>

\* usernames sent to the registration endpoint
alice == <<"a", "l", "i", "c", "e">>
bob == <<"b", "o", "b">>
abcdefghijklmnop ==
    <<"a", "b", "c", "d", "e", "f", "g", "h", "i", "j", "k", "l", "m", "n", "o", "p">>
InvalidNames ==
    { <<"a", "b">>,                             \* too short
      <<>>,                                     \* empty
      abcdefghijklmnop \o <<"q">>,              \* 17 characters
      <<"A", "L", "I", "C", "E">>,              \* upper case
      <<"a", "l", "i", "c", "E">>,              \* upper case, not leading
      <<"a", "l", "i", "c", "e", "_", "b", "o", "b">>, \* special character
      <<"1", "a", "l", "i", "c", "e">>,         \* leading digit
      <<"s", "y", "s", "t", "e", "m">>,         \* reserved
      <<"a", "d", "m", "i", "n">>,
      <<"r", "o", "o", "t">>,
      <<"d", "e", "f", "a", "u", "l", "t">>,
      <<"k", "u", "b", "e", "c", "r", "a", "f", "t">>,
      <<"k", "u", "b", "e", "-", "s", "y", "s", "t", "e", "m">> }
\* the names the concurrent requests draw from
RegNames == { alice, bob, PreName(0), <<"r", "o", "o", "t">> }
\* the names a single request draws from
AllNames == RegNames \cup InvalidNames \cup { abcdefghijklmnop }

\* requests: a wrong method, a body that is not JSON, a username
Requests(names) ==
    { [method |-> "GET", jsonOk |-> TRUE, username |-> <<>>],
      [method |-> "POST", jsonOk |-> FALSE, username |-> <<>>] }
        \cup { [method |-> "POST", jsonOk |-> TRUE, username |-> u] : u \in names }

(* ------------------------------------------------------------------ *)
(* State                                                               *)
(* ------------------------------------------------------------------ *)
VARIABLES
    \* objects held by the API server
    namespaces,       \* set of [name, app, user]
    serviceAccounts,  \* set of [ns, name]
    roles,            \* set of [ns, name]
    roleBindings,     \* set of [ns, name, subject]
    quotas,           \* set of [ns, name]
    crb,              \* ClusterRoleBinding kc-users-capacity-check
    services,         \* set of [ns, name, app, nodePort]
    statefulsets,     \* set of [ns, name, replicas]
    pods,             \* set of [ns, name, app, phase, ready, requestsKi, limitsKi]
    pvcs,             \* set of [ns, name]
    \* registration server: the one Client shared by every request
    regNamespace,     \* Client.namespace
    rpc,              \* per request: position in the handler
    rReq,             \* per request: the request (method, body)
    rUser,            \* per request: req.Username
    rCrb,             \* per request: the ClusterRoleBinding read by Get
    rResp,            \* per request: the response written
    okCount,          \* per username: responses with status "success"
    rSolo,            \* per request: no other request was in progress with it
    \* the administrator's shell: delete-user.sh, RemoveUserFromCapacityChecker
    adm,              \* the run in progress, its locals, and the run before it
    \* command-line clients: one process per client, each with its own Client
    cli               \* per client: user, command, arguments, locals, position

tenantVars == <<namespaces, serviceAccounts, roles, roleBindings, quotas, crb>>
serverVars == <<services, statefulsets, pods, pvcs>>
clusterVars == <<tenantVars, serverVars>>
regVars == <<regNamespace, rpc, rReq, rUser, rCrb, rResp, okCount, rSolo, adm>>
vars == <<clusterVars, regVars, cli>>

(* ------------------------------------------------------------------ *)
(* pkg/registration: ValidateUsername                                  *)
(* ------------------------------------------------------------------ *)
Nil == "nil"

\* ValidateUsername with the upper length limit off by one
ValidateUsername_LongOk(username) ==
    IF Len(username) < 3 \/ Len(username) > 17
    THEN "username must be 3-16 characters long"
    ELSE IF \E i \in 1 .. Len(username) : username[i] \notin (LowerAZ \cup Digit09)
    THEN "username must only contain lowercase letters and numbers"
    ELSE IF username[1] \notin LowerAZ
    THEN "username must start with a lowercase letter"
    ELSE IF username \in ReservedUserNames
    THEN "username is reserved"
    ELSE Nil

ValidateUsername(username) ==
    IF Len(username) < 3 \/ Len(username) > 16
    THEN "username must be 3-16 characters long"
    ELSE IF \E i \in 1 .. Len(username) : username[i] \notin (LowerAZ \cup Digit09)
    THEN "username must only contain lowercase letters and numbers"
    ELSE IF username[1] \notin LowerAZ
    THEN "username must start with a lowercase letter"
    ELSE IF username \in ReservedUserNames
    THEN "username is reserved"
    ELSE Nil

(* ------------------------------------------------------------------ *)
(* pkg/k8s: namespaces                                                 *)
(* ------------------------------------------------------------------ *)
NsPresent(nsName) == \E n \in namespaces : n.name = nsName

\* NamespaceExists looking the username up without the "mc-" prefix
NamespaceExists_NoPrefix(username) == NsPresent(username)

NamespaceExists(username) == NsPresent(<<"m", "c", "-">> \o username)

CountUserNamespaces ==
    Cardinality({ n \in namespaces : n.app = CommonLabelValue })

\* Tenant objects as the handler leaves them after a complete registration.
Subject(username, nsName) == [name |-> username, ns |-> nsName]
TenantNamespace(u) == [name |-> NamespacePrefix \o u, app |-> CommonLabelValue, user |-> u]
TenantBinding(u) ==
    [ns |-> NamespacePrefix \o u, name |-> BindingPrefix \o u,
     subject |-> Subject(u, NamespacePrefix \o u)]

(* ------------------------------------------------------------------ *)
(* internal/registration: the HTTP handler                             *)
(* ------------------------------------------------------------------ *)
NoResp == [code |-> 0, status |-> "", message |-> "", cause |-> "",
           username |-> <<>>, token |-> <<>>]
NoCrb == [rv |-> 0, subjects |-> <<>>]
NoReq == [method |-> "", jsonOk |-> FALSE, username |-> <<>>]

ErrorResp(code, message, cause) ==
    [code |-> code, status |-> "error", message |-> message, cause |-> cause,
     username |-> <<>>, token |-> <<>>]

SuccessResp(username, token) ==
    [code |-> 201, status |-> "success", message |-> "", cause |-> "",
     username |-> username, token |-> token]

\* sendError(...); return
SendError(h, code, message, cause) ==
    /\ rpc' = [rpc EXCEPT ![h] = "done"]
    /\ rResp' = [rResp EXCEPT ![h] = ErrorResp(code, message, cause)]

\* Proceed without the return after sendError: the handler goes on
Proceed_IgnoreError(h, cause, message, next) ==
    /\ rpc' = [rpc EXCEPT ![h] = next]
    /\ UNCHANGED rResp

\* "if err != nil { sendError(500, ...); return }" after a call, else go on
Proceed(h, cause, message, next) ==
    IF cause # Nil
    THEN SendError(h, 500, message, cause)
    ELSE /\ rpc' = [rpc EXCEPT ![h] = next]
         /\ UNCHANGED rResp

\* A request arrives: method check, JSON decoding, ValidateUsername.
RegReceive(h, method, jsonOk, username) ==
    /\ rpc[h] = "idle"
    /\ rReq' = [rReq EXCEPT ![h] = [method |-> method, jsonOk |-> jsonOk,
                                    username |-> username]]
    /\ rSolo' = [k \in Handlers |-> k = h /\ \A j \in Handlers : rpc[j] = "idle"]
    /\ IF method # "POST"
       THEN /\ SendError(h, 405, "Invalid request method", "")
            /\ rUser' = [rUser EXCEPT ![h] = <<>>]
       ELSE IF ~jsonOk
       THEN /\ SendError(h, 400, "Invalid JSON format", "")
            /\ rUser' = [rUser EXCEPT ![h] = <<>>]
       ELSE /\ rUser' = [rUser EXCEPT ![h] = username]
            /\ IF ValidateUsername(username) # Nil
               THEN SendError(h, 400, ValidateUsername(username), "")
               ELSE /\ rpc' = [rpc EXCEPT ![h] = "count"]
                    /\ rResp' = [rResp EXCEPT ![h] = NoResp]
    /\ UNCHANGED <<clusterVars, regNamespace, rCrb, okCount>>

\* RegCount comparing with > where the code has >=
RegCount_OffByOne(h) ==
    /\ rpc[h] = "count"
    /\ IF CountUserNamespaces > MaxUsers
       THEN SendError(h, 500, "max user limit reached", "")
       ELSE /\ rpc' = [rpc EXCEPT ![h] = "exists"]
            /\ UNCHANGED rResp
    /\ UNCHANGED <<clusterVars, regNamespace, rUser, rCrb, okCount, rReq, rSolo>>

\* count, err := k8sClient.CountUserNamespaces(); count >= MaxUsers
RegCount(h) ==
    /\ rpc[h] = "count"
    /\ IF CountUserNamespaces >= MaxUsers
       THEN SendError(h, 500, "max user limit reached", "")
       ELSE /\ rpc' = [rpc EXCEPT ![h] = "exists"]
            /\ UNCHANGED rResp
    /\ UNCHANGED <<clusterVars, regNamespace, rUser, rCrb, okCount, rReq, rSolo>>

\* the handler going on to provision a name whose namespace exists
RegExists_Reprovisions(h) ==
    /\ rpc[h] = "exists"
    /\ rpc' = [rpc EXCEPT ![h] = "createNamespace"]
    /\ UNCHANGED rResp
    /\ UNCHANGED <<clusterVars, regNamespace, rUser, rCrb, okCount, rReq, rSolo>>

\* exists, err := k8sClient.NamespaceExists(req.Username)
RegExists(h) ==
    /\ rpc[h] = "exists"
    /\ IF NamespaceExists(rUser[h])
       THEN SendError(h, 409, "Username already registered", "")
       ELSE /\ rpc' = [rpc EXCEPT ![h] = "createNamespace"]
            /\ UNCHANGED rResp
    /\ UNCHANGED <<clusterVars, regNamespace, rUser, rCrb, okCount, rReq, rSolo>>

\* Client.CreateNamespace: sets Client.namespace once the create succeeded
CreateNamespace(h) ==
    LET username == rUser[h]
        nsName == NamespacePrefix \o username
        cause == IF NsPresent(nsName) THEN "namespace already exists" ELSE Nil
    IN /\ rpc[h] = "createNamespace"
       /\ IF cause = Nil
          THEN /\ namespaces' = namespaces \cup
                     {[name |-> nsName, app |-> CommonLabelValue, user |-> username]}
               /\ regNamespace' = nsName
          ELSE UNCHANGED <<namespaces, regNamespace>>
       /\ Proceed(h, cause, "failed to create namespace", "createServiceAccount")
       /\ UNCHANGED <<serviceAccounts, roles, roleBindings, quotas, crb,
                      serverVars, rUser, rCrb, okCount, rReq, rSolo>>

\* The API server's answer to a create of a namespaced object.
CreateCause(objs, ns, name) ==
    IF ~NsPresent(ns) THEN "NotFound"
    ELSE IF \E o \in objs : o.ns = ns /\ o.name = name THEN "AlreadyExists"
    ELSE Nil

CreateServiceAccount(h) ==
    LET username == rUser[h]
        ns == regNamespace
        cause == CreateCause(serviceAccounts, ns, username)
    IN /\ rpc[h] = "createServiceAccount"
       /\ serviceAccounts' = IF cause = Nil
                             THEN serviceAccounts \cup {[ns |-> ns, name |-> username]}
                             ELSE serviceAccounts
       /\ Proceed(h, cause, "failed to create serviceaccount", "createRole")
       /\ UNCHANGED <<namespaces, roles, roleBindings, quotas, crb,
                      serverVars, regNamespace, rUser, rCrb, okCount, rReq, rSolo>>

CreateRole(h) ==
    LET ns == regNamespace
        cause == CreateCause(roles, ns, UserRoleName)
    IN /\ rpc[h] = "createRole"
       /\ roles' = IF cause = Nil
                   THEN roles \cup {[ns |-> ns, name |-> UserRoleName]}
                   ELSE roles
       /\ Proceed(h, cause, "failed to create role", "createRoleBinding")
       /\ UNCHANGED <<namespaces, serviceAccounts, roleBindings, quotas, crb,
                      serverVars, regNamespace, rUser, rCrb, okCount, rReq, rSolo>>

\* CreateRoleBinding followed by the capacity checker, the quota left out
CreateRoleBinding_SkipsQuota(h) ==
    LET username == rUser[h]
        ns == regNamespace
        cause == CreateCause(roleBindings, ns, BindingPrefix \o username)
    IN /\ rpc[h] = "createRoleBinding"
       /\ roleBindings' =
              IF cause = Nil
              THEN roleBindings \cup
                       {[ns |-> ns, name |-> BindingPrefix \o username,
                         subject |-> Subject(username, ns)]}
              ELSE roleBindings
       /\ Proceed(h, cause, "failed to create rolebinding", "getCapacityChecker")
       /\ UNCHANGED <<namespaces, serviceAccounts, roles, quotas, crb,
                      serverVars, regNamespace, rUser, rCrb, okCount, rReq, rSolo>>

CreateRoleBinding(h) ==
    LET username == rUser[h]
        ns == regNamespace
        cause == CreateCause(roleBindings, ns, BindingPrefix \o username)
    IN /\ rpc[h] = "createRoleBinding"
       /\ roleBindings' =
              IF cause = Nil
              THEN roleBindings \cup
                       {[ns |-> ns, name |-> BindingPrefix \o username,
                         subject |-> Subject(username, ns)]}
              ELSE roleBindings
       /\ Proceed(h, cause, "failed to create rolebinding", "createResourceQuota")
       /\ UNCHANGED <<namespaces, serviceAccounts, roles, quotas, crb,
                      serverVars, regNamespace, rUser, rCrb, okCount, rReq, rSolo>>

CreateResourceQuota(h) ==
    LET ns == regNamespace
        cause == CreateCause(quotas, ns, QuotaName)
    IN /\ rpc[h] = "createResourceQuota"
       /\ quotas' = IF cause = Nil
                    THEN quotas \cup {[ns |-> ns, name |-> QuotaName]}
                    ELSE quotas
       /\ Proceed(h, cause, "failed to create resourcequota", "getCapacityChecker")
       /\ UNCHANGED <<namespaces, serviceAccounts, roles, roleBindings, crb,
                      serverVars, regNamespace, rUser, rCrb, okCount, rReq, rSolo>>

\* slices.Contains never finding the subject
SeqContains_Never(seq, x) == FALSE

SeqContains(seq, x) == \E i \in 1 .. Len(seq) : seq[i] = x

\* an Update that is accepted whatever resourceVersion it carries
Stale_Never(rv) == FALSE

\* the API server's test of an Update: the object sent carries the
\* resourceVersion it was read with, and the stored object has moved on
Stale(rv) == crb.rv # rv

\* the Get making the ClusterRoleBinding when it does not find it
AddUserGet_Installs(h) ==
    /\ rpc[h] = "getCapacityChecker"
    /\ crb' = [crb EXCEPT !.exists = TRUE]
    /\ rCrb' = [rCrb EXCEPT ![h] = [rv |-> crb.rv, subjects |-> crb.subjects]]
    /\ rpc' = [rpc EXCEPT ![h] = "updateCapacityChecker"]
    /\ UNCHANGED rResp
    /\ UNCHANGED <<namespaces, serviceAccounts, roles, roleBindings, quotas,
                   serverVars, regNamespace, rUser, okCount, rReq, rSolo>>

\* AddUserToCapacityChecker, first call: ClusterRoleBindings().Get
AddUserGet(h) ==
    /\ rpc[h] = "getCapacityChecker"
    /\ IF ~crb.exists
       THEN /\ SendError(h, 500, "failed to add user to capacity checker",
                         "could not find ClusterRoleBinding")
            /\ UNCHANGED rCrb
       ELSE /\ rCrb' = [rCrb EXCEPT ![h] = [rv |-> crb.rv, subjects |-> crb.subjects]]
            /\ rpc' = [rpc EXCEPT ![h] = "updateCapacityChecker"]
            /\ UNCHANGED rResp
    /\ UNCHANGED <<clusterVars, regNamespace, rUser, okCount, rReq, rSolo>>

\* AddUserToCapacityChecker, rest: duplicate check, append,
\* ClusterRoleBindings().Update of the object that was read
AddUserUpdate(h) ==
    LET newSubject == Subject(rUser[h], regNamespace)
        cause == IF SeqContains(rCrb[h].subjects, newSubject)
                 THEN "user already exists in cluster role binding"
                 ELSE IF ~crb.exists THEN "NotFound"
                 ELSE IF Stale(rCrb[h].rv) THEN "Conflict"
                 ELSE Nil
    IN /\ rpc[h] = "updateCapacityChecker"
       /\ crb' = IF cause = Nil
                 THEN [crb EXCEPT !.subjects = Append(rCrb[h].subjects, newSubject),
                                  !.rv = crb.rv + 1]
                 ELSE crb
       /\ Proceed(h, cause, "failed to add user to capacity checker", "generateToken")
       /\ UNCHANGED <<namespaces, serviceAccounts, roles, roleBindings, quotas,
                      serverVars, regNamespace, rUser, rCrb, okCount, rReq, rSolo>>

\* GenerateToken: a token request for the ServiceAccount in Client.namespace
GenerateToken(username) ==
    IF [ns |-> regNamespace, name |-> username] \in serviceAccounts
    THEN [cause |-> Nil, token |-> <<username, regNamespace>>]
    ELSE [cause |-> "NotFound", token |-> <<>>]

\* token, err := k8sClient.GenerateToken(...); the success response
RegGenerateToken(h) ==
    LET r == GenerateToken(rUser[h])
    IN /\ rpc[h] = "generateToken"
       /\ rpc' = [rpc EXCEPT ![h] = "done"]
       /\ IF r.cause # Nil
          THEN /\ rResp' = [rResp EXCEPT
                                ![h] = ErrorResp(500, "failed to generate token", r.cause)]
               /\ UNCHANGED okCount
          ELSE /\ rResp' = [rResp EXCEPT ![h] = SuccessResp(rUser[h], r.token)]
               /\ okCount' = [okCount EXCEPT ![rUser[h]] = @ + 1]
       /\ UNCHANGED <<clusterVars, regNamespace, rUser, rCrb, rReq, rSolo>>

\* The response has been written; the server takes the next request.
RegReturn(h) ==
    /\ rpc[h] = "done"
    /\ rpc' = [rpc EXCEPT ![h] = "idle"]
    /\ rUser' = [rUser EXCEPT ![h] = <<>>]
    /\ rCrb' = [rCrb EXCEPT ![h] = NoCrb]
    /\ rResp' = [rResp EXCEPT ![h] = NoResp]
    /\ rReq' = [rReq EXCEPT ![h] = NoReq]
    /\ rSolo' = [rSolo EXCEPT ![h] = FALSE]
    /\ UNCHANGED <<clusterVars, regNamespace, okCount>>

(* ------------------------------------------------------------------ *)
(* Removing a tenant: delete-user.sh, RemoveUserFromCapacityChecker    *)
(* ------------------------------------------------------------------ *)
\* The administrator's shell runs one thing at a time.
\*   op        "script" (delete-user.sh) or "remove" (the Go function)
\*   user, ns  the username given; Client.namespace of the Go function
\*   subjects  the subjects read from the ClusterRoleBinding, rv its version
\*   index     SUBJECT_INDEX of the script
\*   exit      exit status of the script, 1 also for an error of the function
\*   message   what the run reported last
\*   prev      the run that ended before this one, and the subjects it left
\*   runs      commands the administrator has given
NoRun == [op |-> "", user |-> <<>>, ns |-> <<>>, exit |-> 0, message |-> "",
          subjects |-> <<>>]
IdleAdmin ==
    [pc |-> "idle", op |-> "", user |-> <<>>, ns |-> <<>>, subjects |-> <<>>,
     rv |-> 0, index |-> -1, exit |-> 0, message |-> "", prev |-> NoRun,
     runs |-> 0]
AdminBegin == [IdleAdmin EXCEPT !.prev = adm.prev, !.runs = adm.runs + 1]
AdminEnds(a, status, message) ==
    [a EXCEPT !.pc = "done", !.exit = status, !.message = message]

\* The namespace controller: deleting a namespace deletes what is in it.
InNamespace(objs, nsName) == { o \in objs : o.ns = nsName }

\* a namespace delete that leaves the objects of the namespace behind
DeleteNamespaceCascade_NamespaceOnly(nsName) ==
    /\ namespaces' = { n \in namespaces : n.name # nsName }
    /\ UNCHANGED <<serviceAccounts, roles, roleBindings, quotas, serverVars>>

DeleteNamespaceCascade(nsName) ==
    /\ namespaces' = { n \in namespaces : n.name # nsName }
    /\ serviceAccounts' = serviceAccounts \ InNamespace(serviceAccounts, nsName)
    /\ roles' = roles \ InNamespace(roles, nsName)
    /\ roleBindings' = roleBindings \ InNamespace(roleBindings, nsName)
    /\ quotas' = quotas \ InNamespace(quotas, nsName)
    /\ services' = services \ InNamespace(services, nsName)
    /\ statefulsets' = statefulsets \ InNamespace(statefulsets, nsName)
    /\ pods' = pods \ InNamespace(pods, nsName)
    /\ pvcs' = pvcs \ InNamespace(pvcs, nsName)

\* ./delete-user.sh <username>
ScriptStart(username) ==
    /\ adm.pc = "idle"
    /\ adm' = [AdminBegin EXCEPT !.op = "script", !.user = username,
                                 !.pc = "checkNamespace"]
    /\ UNCHANGED <<clusterVars, regNamespace, rpc, rReq, rUser, rCrb, rResp,
                   okCount, rSolo, cli>>

\* if ! kubectl get namespace "mc-${USERNAME}"; then ... exit 1
ScriptCheckNamespace ==
    /\ adm.op = "script"
    /\ adm.pc = "checkNamespace"
    /\ adm' = IF ~NsPresent(<<"m", "c", "-">> \o adm.user)
              THEN AdminEnds(adm, 1, "ERROR: User does not exist")
              ELSE [adm EXCEPT !.pc = "deleteNamespace"]
    /\ UNCHANGED <<clusterVars, regNamespace, rpc, rReq, rUser, rCrb, rResp,
                   okCount, rSolo, cli>>

\* kubectl delete namespace "mc-${USERNAME}"; under set -e a failure of
\* kubectl ends the script with its status
ScriptDeleteNamespace ==
    LET nsName == <<"m", "c", "-">> \o adm.user
    IN /\ adm.op = "script"
       /\ adm.pc = "deleteNamespace"
       /\ IF NsPresent(nsName)
          THEN /\ DeleteNamespaceCascade(nsName)
               /\ adm' = [adm EXCEPT !.pc = "getSubjects"]
          ELSE /\ UNCHANGED <<namespaces, serviceAccounts, roles, roleBindings,
                              quotas, serverVars>>
               /\ adm' = AdminEnds(adm, 1, "")
       /\ UNCHANGED <<crb, regNamespace, rpc, rReq, rUser, rCrb, rResp,
                      okCount, rSolo, cli>>

\* '{range .subjects[*]}{.name},{.namespace}{"\n"}{end}' read back line by
\* line from a here-string: one line per subject, one empty line for none
SubjectLines(subjects) ==
    IF subjects = <<>> THEN << [name |-> <<>>, ns |-> <<>>] >> ELSE subjects

\* The while loop of the script under set -e.  ((INDEX++)) has the status 1
\* when the value of the expression is 0, that is when INDEX was 0, and
\* set -e then ends the script.
RECURSIVE ScanSubjects(_, _, _, _)
ScanSubjects(lines, i, username, INDEX) ==
    IF i > Len(lines) THEN [errexit |-> FALSE, index |-> -1]
    ELSE IF lines[i].name = username /\ lines[i].ns = <<"m", "c", "-">> \o username
    THEN [errexit |-> FALSE, index |-> INDEX]
    ELSE IF INDEX = 0 THEN [errexit |-> TRUE, index |-> -1]
    ELSE ScanSubjects(lines, i + 1, username, INDEX + 1)

\* SUBJECTS=$(kubectl get clusterrolebinding ...), the loop, and the
\* branch on SUBJECT_INDEX
ScriptGetSubjects ==
    LET found == ScanSubjects(SubjectLines(crb.subjects), 1, adm.user, 0)
    IN /\ adm.op = "script"
       /\ adm.pc = "getSubjects"
       /\ adm' = IF ~crb.exists THEN AdminEnds(adm, 1, "")
                 ELSE IF found.errexit
                 THEN AdminEnds([adm EXCEPT !.subjects = crb.subjects], 1, "")
                 ELSE IF found.index = -1
                 THEN AdminEnds([adm EXCEPT !.subjects = crb.subjects], 0,
                                "User has been completely deleted")
                 ELSE [adm EXCEPT !.subjects = crb.subjects,
                                  !.index = found.index, !.pc = "patch"]
       /\ UNCHANGED <<clusterVars, regNamespace, rpc, rReq, rUser, rCrb, rResp,
                      okCount, rSolo, cli>>

\* seq without its element at the 0-based index i
RemoveAt(seq, i) ==
    [k \in 1 .. Len(seq) - 1 |-> IF k <= i THEN seq[k] ELSE seq[k + 1]]

\* kubectl patch ... [{"op": "remove", "path": "/subjects/<index>"}]
ScriptPatch ==
    /\ adm.op = "script"
    /\ adm.pc = "patch"
    /\ IF crb.exists /\ adm.index < Len(crb.subjects)
       THEN /\ crb' = [crb EXCEPT !.subjects = RemoveAt(crb.subjects, adm.index),
                                  !.rv = crb.rv + 1]
            /\ adm' = AdminEnds(adm, 0, "User has been completely deleted")
       ELSE /\ UNCHANGED crb
            /\ adm' = AdminEnds(adm, 1, "ERROR: Failed to remove user from ClusterRoleBinding")
    /\ UNCHANGED <<namespaces, serviceAccounts, roles, roleBindings, quotas,
                   serverVars, regNamespace, rpc, rReq, rUser, rCrb, rResp,
                   okCount, rSolo, cli>>

\* Client.RemoveUserFromCapacityChecker(username) on a Client whose
\* namespace is ns: the Get
RemoveUserGet(username, ns) ==
    /\ adm.pc = "idle"
    /\ adm' = IF ~crb.exists
              THEN AdminEnds([AdminBegin EXCEPT !.op = "remove", !.user = username,
                                                !.ns = ns],
                             1, "could not get ClusterRoleBinding")
              ELSE [AdminBegin EXCEPT !.op = "remove", !.user = username, !.ns = ns,
                                      !.subjects = crb.subjects, !.rv = crb.rv,
                                      !.pc = "update"]
    /\ UNCHANGED <<clusterVars, regNamespace, rpc, rReq, rUser, rCrb, rResp,
                   okCount, rSolo, cli>>

\* the filter loop dropping every subject of the name, whatever its namespace
Filtered_ByName(subjects, username, ns) ==
    SelectSeq(subjects, LAMBDA x : x.name # username)

\* the filter loop of RemoveUserFromCapacityChecker
Filtered(subjects, username, ns) ==
    SelectSeq(subjects, LAMBDA x : ~(x.name = username /\ x.ns = ns))

\* RemoveUserFromCapacityChecker: the filter and the Update
RemoveUserUpdate ==
    LET filtered == Filtered(adm.subjects, adm.user, adm.ns)
        cause == IF ~crb.exists THEN "NotFound"
                 ELSE IF Stale(adm.rv) THEN "Conflict"
                 ELSE Nil
    IN /\ adm.op = "remove"
       /\ adm.pc = "update"
       /\ IF cause = Nil
          THEN /\ crb' = [crb EXCEPT !.subjects = filtered,
                                     !.rv = IF filtered = crb.subjects THEN crb.rv
                                            ELSE crb.rv + 1]
               /\ adm' = AdminEnds(adm, 0, "")
          ELSE /\ UNCHANGED crb
               /\ adm' = AdminEnds(adm, 1, "could not update ClusterRoleBinding")
       /\ UNCHANGED <<namespaces, serviceAccounts, roles, roleBindings, quotas,
                      serverVars, regNamespace, rpc, rReq, rUser, rCrb, rResp,
                      okCount, rSolo, cli>>

\* The run has ended; the shell takes the next command.
AdminReturn ==
    /\ adm.pc = "done"
    /\ adm' = [IdleAdmin EXCEPT !.runs = adm.runs, !.prev =
                  [op |-> adm.op, user |-> adm.user, ns |-> adm.ns, exit |-> adm.exit,
                   message |-> adm.message, subjects |-> crb.subjects]]
    /\ UNCHANGED <<clusterVars, regNamespace, rpc, rReq, rUser, rCrb, rResp,
                   okCount, rSolo, cli>>

(* ------------------------------------------------------------------ *)
(* Servers: the objects                                                *)
(* ------------------------------------------------------------------ *)
srv == <<"s", "r", "v">>
\* a server name that is too short
ab == <<"a", "b">>
\* arguments given to the server commands
ServerNames == {srv, ab}

\* The objects a created server consists of (CreateServer, and the pod and
\* claim the StatefulSet controller makes for replica 0).  A pod carries the
\* memory request of each of its containers, in KiB.
\* the service made without its node port set
ServiceOf_NoNodePort(ns, name, port) ==
    [ns |-> ns, name |-> name, app |-> CommonLabelValue, nodePort |-> 0]

ServiceOf(ns, name, port) ==
    [ns |-> ns, name |-> name, app |-> CommonLabelValue, nodePort |-> port]
StatefulSetOf(ns, name, replicas) == [ns |-> ns, name |-> name, replicas |-> replicas]
PodOf(ns, name, phase, ready) ==
    [ns |-> ns, name |-> name \o <<"-", "0">>, app |-> CommonLabelValuePod,
     phase |-> phase, ready |-> ready, requestsKi |-> <<ServerMemoryRequestKi>>,
     limitsKi |-> <<ServerMemoryLimitKi>>]
PvcOf(ns, name) == [ns |-> ns, name |-> <<"m", "c", "-">> \o name \o <<"-", "0">>]

(* ------------------------------------------------------------------ *)
(* Servers: the command-line client                                    *)
(* ------------------------------------------------------------------ *)
\* A client process before it runs a command: the user of its configuration
\* and the locals of the command it will run.
\*   total    totalMemoryRequested of CheckNodeCapacity
\*   port     the port AllocateNodePort or GetNodePort returned
\*   fresh    the StatefulSet read by ScaleServer is still the stored one
\*   attempt  failed polls of WaitForReady
\*   sleeps   intervals WaitForReady has slept
\*   err      the error returned, outermost message first; <<>> is nil
\*   out      what the command printed on success
\*   items    the StatefulSets of ListServers still to be looked at
\*   listed   serversInfo of ListServers
\*   prev     the command the user ran before this one, if it succeeded
NoPrev == [cmd |-> "", name |-> <<>>, port |-> 0, ok |-> FALSE]
IdleClient(u) ==
    [user |-> u, pc |-> "idle", cmd |-> "", name |-> <<>>, replicas |-> 0,
     input |-> <<>>, total |-> 0, port |-> 0, fresh |-> FALSE, attempt |-> 0,
     sleeps |-> 0, err |-> <<>>, out |-> "", items |-> <<>>, listed |-> <<>>, prev |-> NoPrev]

\* the process of the next command of client c
Begin(c) == [IdleClient(cli[c].user) EXCEPT !.prev = cli[c].prev]

\* NewClientFromToken: Client.namespace
ClientNamespace(c) == NamespacePrefix \o cli[c].user

Failed(r, err) == [r EXCEPT !.pc = "done", !.err = err]
Finished(r, out) == [r EXCEPT !.pc = "done", !.out = out]
At(r, pc) == [r EXCEPT !.pc = pc]

\* A call the API server would carry out may still fail on the way.
Faults == {"ServerError"}
Answers(cause) == IF cause = Nil THEN {Nil} \cup Faults ELSE {cause}

\* Any write to a StatefulSet makes the copies read earlier stale.
Invalidate(f, ns, name) ==
    [c \in Clients |->
        IF NamespacePrefix \o f[c].user = ns /\ f[c].name = name
        THEN [f[c] EXCEPT !.fresh = FALSE]
        ELSE f[c]]

ValidateServerName(name) ==
    IF Len(name) < MinServerNameLength \/ Len(name) > MaxServerNameLength
    THEN "server name must be between 3 and 16 characters"
    ELSE IF \E i \in 1 .. Len(name) : name[i] \notin LowerAZ /\ name[i] \notin Digit09
    THEN "server name must contain only lowercase letters and numbers"
    ELSE IF name[1] \notin LowerAZ
    THEN "server name must start with a lowercase letter"
    ELSE Nil

\* kubecraft server create <server-name>
execute(c, serverName) ==
    LET r == [Begin(c) EXCEPT !.cmd = "create", !.name = serverName]
        e == ValidateServerName(serverName)
    IN /\ cli[c].pc = "idle"
       /\ cli' = [cli EXCEPT ![c] = IF e # Nil
                                    THEN Failed(r, <<"invalid server name", e>>)
                                    ELSE At(r, "serverExists")]
       /\ UNCHANGED <<clusterVars, regVars>>

\* kubecraft server start <server-name>
executeStart(c, serverName) ==
    /\ cli[c].pc = "idle"
    /\ cli' = [cli EXCEPT ![c] =
                  [Begin(c) EXCEPT !.cmd = "start", !.name = serverName,
                                                  !.replicas = 1, !.pc = "serverExists"]]
    /\ UNCHANGED <<clusterVars, regVars>>

\* stop asking ScaleServer for one replica
executeStop_ScaleUp(c, serverName) ==
    /\ cli[c].pc = "idle"
    /\ cli' = [cli EXCEPT ![c] =
                  [Begin(c) EXCEPT !.cmd = "stop", !.name = serverName,
                                   !.replicas = 1, !.pc = "serverExists"]]
    /\ UNCHANGED <<clusterVars, regVars>>

\* kubecraft server stop <server-name>
executeStop(c, serverName) ==
    /\ cli[c].pc = "idle"
    /\ cli' = [cli EXCEPT ![c] =
                  [Begin(c) EXCEPT !.cmd = "stop", !.name = serverName,
                                                  !.replicas = 0, !.pc = "serverExists"]]
    /\ UNCHANGED <<clusterVars, regVars>>

\* kubecraft server delete <server-name>, and the line typed at its prompt
executeDelete(c, serverName, input) ==
    /\ cli[c].pc = "idle"
    /\ cli' = [cli EXCEPT ![c] =
                  [Begin(c) EXCEPT !.cmd = "delete", !.name = serverName,
                                                  !.input = input, !.pc = "serverExists"]]
    /\ UNCHANGED <<clusterVars, regVars>>

\* Client.ScaleServer called on its own, as the package's tests do
CallScaleServer(c, serverName, replicas) ==
    /\ cli[c].pc = "idle"
    /\ cli' = [cli EXCEPT ![c] =
                  [Begin(c) EXCEPT !.cmd = "scale", !.name = serverName,
                                                  !.replicas = replicas, !.pc = "scaleGet"]]
    /\ UNCHANGED <<clusterVars, regVars>>

\* the Get of ServerExists finding only a server that is not stopped
StatefulSetStored_RunningOnly(ns, name) ==
    \E s \in statefulsets : s.ns = ns /\ s.name = name /\ s.replicas # 0

\* the Get of ServerExists: a StatefulSet of that name is stored
StatefulSetStored(ns, name) == \E s \in statefulsets : s.ns = ns /\ s.name = name

\* Client.ServerExists and what each command does with its answer
ServerExists(c) ==
    LET r == cli[c]
        found == StatefulSetStored(ClientNamespace(c), r.name)
        wrap == CASE r.cmd = "create" -> "cannot check server existence"
                  [] r.cmd = "start" -> "couldn't check server existence"
                  [] r.cmd = "stop" -> "could not check server existence"
                  [] OTHER -> "could not check if server exists"
    IN /\ r.pc = "serverExists"
       /\ \E answer \in Answers(Nil) :
             cli' = [cli EXCEPT ![c] =
                IF answer # Nil THEN Failed(r, <<wrap, "failed to list servers", answer>>)
                ELSE IF r.cmd = "create"
                THEN IF found THEN Failed(r, <<"server already exists">>)
                              ELSE At(r, "checkNodeCapacity")
                ELSE IF ~found THEN Failed(r, <<"server does not exist">>)
                ELSE IF r.cmd = "delete"
                THEN IF r.input # r.name THEN Finished(r, "cancelled")
                                         ELSE At(r, "deleteStatefulSet")
                ELSE At(r, "scaleGet")]
       /\ UNCHANGED <<clusterVars, regVars>>

(* ------------------------------------------------------------------ *)
(* Servers: Create                                                     *)
(* ------------------------------------------------------------------ *)
\* container.Resources.Requests.Memory().Value() / 1024 / 1024, summed
RECURSIVE SumRequests(_)
SumRequests(requestsKi) ==
    IF requestsKi = <<>> THEN 0
    ELSE (Head(requestsKi) \div 1024) + SumRequests(Tail(requestsKi))

\* the memory quantities of the containers of a pod read from their limits
MemoryRequested_Limits(pod) == pod.limitsKi

\* container.Resources.Requests.Memory() of the containers of a pod
MemoryRequested(pod) == pod.requestsKi

RECURSIVE TotalMemoryRequested(_)
TotalMemoryRequested(items) ==
    IF items = {} THEN 0
    ELSE LET pod == CHOOSE p \in items : TRUE
         IN SumRequests(MemoryRequested(pod)) + TotalMemoryRequested(items \ {pod})

\* the list of CheckNodeCapacity without its selector on the phase
RunningServerPods_AnyPhase == { p \in pods : p.app = CommonLabelValuePod }

\* the pods the list of CheckNodeCapacity selects
RunningServerPods == { p \in pods : p.app = CommonLabelValuePod /\ p.phase = "Running" }

\* the capacity test refusing already at the threshold
NotEnoughRam_AtThreshold(total) == (TotalAvailableRAM - total) <= CapacityThreshold

NotEnoughRam(total) == (TotalAvailableRAM - total) < CapacityThreshold

\* execute wrapping the error of the capacity check as it wraps the others
CheckNodeCapacity_Wrapped(c) ==
    LET r == [cli[c] EXCEPT !.total = TotalMemoryRequested(RunningServerPods)]
    IN /\ cli[c].pc = "checkNodeCapacity"
       /\ \E answer \in Answers(Nil) :
             cli' = [cli EXCEPT ![c] =
                IF answer # Nil
                THEN Failed(cli[c], <<"cannot check node capacity", "failed to list pods", answer>>)
                ELSE IF NotEnoughRam(r.total)
                THEN Failed(r, <<"cannot check node capacity",
                                 "not enough ram available to allocate to server">>)
                ELSE At(r, "allocateNodePort")]
       /\ UNCHANGED <<clusterVars, regVars>>

CheckNodeCapacity(c) ==
    LET r == [cli[c] EXCEPT !.total = TotalMemoryRequested(RunningServerPods)]
    IN /\ cli[c].pc = "checkNodeCapacity"
       /\ \E answer \in Answers(Nil) :
             cli' = [cli EXCEPT ![c] =
                IF answer # Nil THEN Failed(cli[c], <<"failed to list pods", answer>>)
                ELSE IF NotEnoughRam(r.total)
                THEN Failed(r, <<"not enough ram available to allocate to server">>)
                ELSE At(r, "allocateNodePort")]
       /\ UNCHANGED <<clusterVars, regVars>>

\* occupiedPorts counting only the services of servers that are not stopped
OccupiedPorts_OfRunning ==
    { s.nodePort : s \in { t \in services :
         /\ t.app = CommonLabelValue
         /\ t.nodePort # 0
         /\ \E w \in statefulsets : w.ns = t.ns /\ w.name = t.name /\ w.replicas >= 1 } }

\* occupiedPorts of AllocateNodePort
OccupiedPorts ==
    { s.nodePort : s \in { t \in services : t.app = CommonLabelValue /\ t.nodePort # 0 } }

\* the loop over the port range; 0 when it runs off the end
RECURSIVE ScanPorts(_, _, _)
ScanPorts(port, last, occupied) ==
    IF port > last THEN 0
    ELSE IF port \notin occupied THEN port
    ELSE ScanPorts(port + 1, last, occupied)

\* the loop stopping one port short of the range
FirstFreePort_SkipsLast(occupied) ==
    ScanPorts(McNodePortRangeMin, McNodePortRangeMax - 1, occupied)

FirstFreePort(occupied) == ScanPorts(McNodePortRangeMin, McNodePortRangeMax, occupied)

AllocateNodePort(c) ==
    LET r == cli[c]
        port == FirstFreePort(OccupiedPorts)
    IN /\ r.pc = "allocateNodePort"
       /\ \E answer \in Answers(Nil) :
             cli' = [cli EXCEPT ![c] =
                IF answer # Nil
                THEN Failed(r, <<"cannot allocate node port", "failed to list services", answer>>)
                ELSE IF port = 0
                THEN Failed(r, <<"cannot allocate node port", "no available ports found in range">>)
                ELSE At([r EXCEPT !.port = port], "createService")]
       /\ UNCHANGED <<clusterVars, regVars>>

\* the API server admitting a service whatever node port it asks for
ServiceCreateCause_AnyPort(ns, name, port) == CreateCause(services, ns, name)

\* The API server's answer to the create of a NodePort service: a node port
\* belongs to one service of the cluster at a time.
ServiceCreateCause(ns, name, port) ==
    IF ~NsPresent(ns) THEN "NotFound"
    ELSE IF \E s \in services : s.nodePort = port THEN "Invalid"
    ELSE CreateCause(services, ns, name)

\* CreateServer, first call: the NodePort service
CreateServerService(c) ==
    LET r == cli[c]
        ns == ClientNamespace(c)
    IN /\ r.pc = "createService"
       /\ \E answer \in Answers(ServiceCreateCause(ns, r.name, r.port)) :
             IF answer = Nil
             THEN /\ services' = services \cup {ServiceOf(ns, r.name, r.port)}
                  /\ cli' = [cli EXCEPT ![c] = At(r, "createStatefulSet")]
             ELSE /\ UNCHANGED services
                  /\ cli' = [cli EXCEPT ![c] =
                        Failed(r, <<"cannot create server",
                                    "failed to create server (nodeport service)", answer>>)]
       /\ UNCHANGED <<tenantVars, statefulsets, pods, pvcs, regVars>>

\* CreateServer, second call: the StatefulSet, with one replica
CreateServerStatefulSet(c) ==
    LET r == cli[c]
        ns == ClientNamespace(c)
    IN /\ r.pc = "createStatefulSet"
       /\ \E answer \in Answers(CreateCause(statefulsets, ns, r.name)) :
             IF answer = Nil
             THEN /\ statefulsets' = statefulsets \cup {StatefulSetOf(ns, r.name, 1)}
                  /\ cli' = [Invalidate(cli, ns, r.name) EXCEPT ![c] = At(r, "waitForReady")]
             ELSE /\ UNCHANGED statefulsets
                  /\ cli' = [cli EXCEPT ![c] =
                        [r EXCEPT !.pc = "cleanupService",
                                  !.err = <<"cannot create server",
                                            "failed to create server (statefulset)", answer>>]]
       /\ UNCHANGED <<tenantVars, services, pods, pvcs, regVars>>

\* CreateServer, after a failed second call: delete the service, whatever
\* the answer, and return the error of the second call
CreateServerCleanup(c) ==
    LET r == cli[c]
        ns == ClientNamespace(c)
    IN /\ r.pc = "cleanupService"
       /\ \E answer \in Answers(Nil) :
             services' = IF answer = Nil
                         THEN { s \in services : ~(s.ns = ns /\ s.name = r.name) }
                         ELSE services
       /\ cli' = [cli EXCEPT ![c] = At(r, "done")]
       /\ UNCHANGED <<tenantVars, statefulsets, pods, pvcs, regVars>>

\* WaitForReady coming out of its loop without an error
TimedOut_Nil(cmd) == <<>>

\* the error of WaitForReady after its loop, as execute and executeStart
\* return it
TimedOut(cmd) ==
    <<IF cmd = "create" THEN "server unable to start" ELSE "server unresponsive",
      "timed out waiting for server to become ready">>

\* the loop test of WaitForReady, i < MaxAttempts
PollsLeft(attempt) == attempt < MaxAttempts

\* Client.WaitForReady: one turn of the loop, that is one poll and, when the
\* poll did not see the pod ready, the sleep of one interval
WaitForReady(c) ==
    LET r == cli[c]
        ready == \E p \in pods : /\ p.ns = ClientNamespace(c)
                                 /\ p.name = r.name \o <<"-", "0">>
                                 /\ p.ready
        slept == [r EXCEPT !.attempt = @ + 1, !.sleeps = @ + 1]
    IN /\ r.pc = "waitForReady"
       /\ \E answer \in Answers(Nil) :
             cli' = [cli EXCEPT ![c] =
                IF answer = Nil /\ ready
                THEN IF r.cmd = "create" THEN Finished(r, "ready") ELSE At(r, "getNodePort")
                ELSE IF PollsLeft(slept.attempt) THEN slept
                ELSE Failed(slept, TimedOut(r.cmd))]
       /\ UNCHANGED <<clusterVars, regVars>>

(* ------------------------------------------------------------------ *)
(* Servers: Start, Stop, Delete                                        *)
(* ------------------------------------------------------------------ *)
\* the replica test without its upper limit
ReplicasInvalid_NoUpper(replicas) == replicas < 0

ReplicasInvalid(replicas) == replicas < 0 \/ replicas > 1

\* what executeStart and executeStop put in front of an error of ScaleServer
ScaleWrap(cmd) ==
    CASE cmd = "start" -> <<"could not start server">>
      [] cmd = "stop" -> <<"could not stop server">>
      [] OTHER -> <<>>

\* ScaleServer: the test of the argument and the Get
ScaleServerGet(c) ==
    LET r == cli[c]
        found == \E s \in statefulsets : s.ns = ClientNamespace(c) /\ s.name = r.name
    IN /\ r.pc = "scaleGet"
       /\ IF ReplicasInvalid(r.replicas)
          THEN cli' = [cli EXCEPT ![c] =
                          Failed(r, ScaleWrap(r.cmd) \o <<"invalid number of replicas">>)]
          ELSE \E answer \in Answers(IF found THEN Nil ELSE "NotFound") :
                  cli' = [cli EXCEPT ![c] =
                     IF answer # Nil
                     THEN Failed(r, ScaleWrap(r.cmd) \o
                                    <<"failed to get server (statefulset)", answer>>)
                     ELSE At([r EXCEPT !.fresh = TRUE], "scaleUpdate")]
       /\ UNCHANGED <<clusterVars, regVars>>

\* ScaleServer: the Update of the StatefulSet read by the Get
ScaleServerUpdate(c) ==
    LET r == [cli[c] EXCEPT !.fresh = FALSE]
        ns == ClientNamespace(c)
        stored == { s \in statefulsets : s.ns = ns /\ s.name = r.name }
        cause == IF stored = {} THEN "NotFound"
                 ELSE IF ~cli[c].fresh THEN "Conflict"
                 ELSE Nil
        changed == \E s \in stored : s.replicas # r.replicas
    IN /\ cli[c].pc = "scaleUpdate"
       /\ \E answer \in Answers(cause) :
             IF answer = Nil
             THEN /\ statefulsets' = (statefulsets \ stored)
                                        \cup {StatefulSetOf(ns, r.name, r.replicas)}
                  /\ cli' = [(IF changed THEN Invalidate(cli, ns, r.name) ELSE cli)
                                EXCEPT ![c] =
                                   IF r.cmd = "start" THEN At(r, "waitForReady")
                                   ELSE Finished(r, IF r.cmd = "stop" THEN "stopped"
                                                                      ELSE "scaled")]
             ELSE /\ UNCHANGED statefulsets
                  /\ cli' = [cli EXCEPT ![c] =
                        Failed(r, ScaleWrap(r.cmd) \o
                                  <<"failed to scale server (statefulset)", answer>>)]
       /\ UNCHANGED <<tenantVars, services, pods, pvcs, regVars>>

\* Client.GetNodePort: the node port of the server's service
GetNodePort(c) ==
    LET r == cli[c]
        stored == { s \in services : s.ns = ClientNamespace(c) /\ s.name = r.name }
    IN /\ r.pc = "getNodePort"
       /\ \E answer \in Answers(IF stored = {} THEN "NotFound" ELSE Nil) :
             cli' = [cli EXCEPT ![c] =
                IF answer # Nil THEN Failed(r, <<"couldn't get node port", answer>>)
                ELSE Finished([r EXCEPT !.port = (CHOOSE s \in stored : TRUE).nodePort],
                              "ready")]
       /\ UNCHANGED <<clusterVars, regVars>>

\* The API server's answer to a delete of a namespaced object.
DeleteCause(objs, ns, name) ==
    IF \E o \in objs : o.ns = ns /\ o.name = name THEN Nil ELSE "NotFound"

\* a delete that is answered without error and removes nothing
Without_Nothing(objs, ns, name) == objs

Without(objs, ns, name) == { o \in objs : ~(o.ns = ns /\ o.name = name) }

\* DeleteServer, first call: the StatefulSet
DeleteServerStatefulSet(c) ==
    LET r == cli[c]
        ns == ClientNamespace(c)
    IN /\ r.pc = "deleteStatefulSet"
       /\ \E answer \in Answers(DeleteCause(statefulsets, ns, r.name)) :
             IF answer = Nil
             THEN /\ statefulsets' = Without(statefulsets, ns, r.name)
                  /\ cli' = [Invalidate(cli, ns, r.name) EXCEPT ![c] = At(r, "deleteService")]
             ELSE /\ UNCHANGED statefulsets
                  /\ cli' = [cli EXCEPT ![c] =
                        Failed(r, <<"could not delete server",
                                    "failed to delete server (statefulset)", answer>>)]
       /\ UNCHANGED <<tenantVars, services, pods, pvcs, regVars>>

\* the second call going on to the claim whatever the answer
DeleteServerService_Silent(c) ==
    LET r == cli[c]
        ns == ClientNamespace(c)
    IN /\ r.pc = "deleteService"
       /\ \E answer \in Answers(DeleteCause(services, ns, r.name)) :
             /\ services' = IF answer = Nil THEN Without(services, ns, r.name)
                            ELSE services
             /\ cli' = [cli EXCEPT ![c] = At(r, "deletePvc")]
       /\ UNCHANGED <<tenantVars, statefulsets, pods, pvcs, regVars>>

\* DeleteServer, second call: the service
DeleteServerService(c) ==
    LET r == cli[c]
        ns == ClientNamespace(c)
    IN /\ r.pc = "deleteService"
       /\ \E answer \in Answers(DeleteCause(services, ns, r.name)) :
             IF answer = Nil
             THEN /\ services' = Without(services, ns, r.name)
                  /\ cli' = [cli EXCEPT ![c] = At(r, "deletePvc")]
             ELSE /\ UNCHANGED services
                  /\ cli' = [cli EXCEPT ![c] =
                        Failed(r, <<"could not delete server",
                                    "failed to delete server (service)", answer>>)]
       /\ UNCHANGED <<tenantVars, statefulsets, pods, pvcs, regVars>>

\* DeleteServer, third call: the claim mc-<server>-0
DeleteServerPvc(c) ==
    LET r == cli[c]
        ns == ClientNamespace(c)
        pvcName == <<"m", "c", "-">> \o r.name \o <<"-", "0">>
    IN /\ r.pc = "deletePvc"
       /\ \E answer \in Answers(DeleteCause(pvcs, ns, pvcName)) :
             IF answer = Nil
             THEN /\ pvcs' = Without(pvcs, ns, pvcName)
                  /\ cli' = [cli EXCEPT ![c] = Finished(r, "deleted")]
             ELSE /\ UNCHANGED pvcs
                  /\ cli' = [cli EXCEPT ![c] =
                        Failed(r, <<"could not delete server",
                                    "failed to delete pvc (service)", answer>>)]
       /\ UNCHANGED <<tenantVars, services, statefulsets, pods, regVars>>

(* ------------------------------------------------------------------ *)
(* Servers: List                                                       *)
(* ------------------------------------------------------------------ *)
\* servers.Items: the StatefulSets of a list call, one after the other
RECURSIVE Items(_)
Items(objs) ==
    IF objs = {} THEN <<>>
    ELSE LET o == CHOOSE x \in objs : TRUE
         IN <<o>> \o Items(objs \ {o})

\* the status column read from the readiness of the instance
StatusOf_FromReadiness(sts) ==
    IF \E p \in pods : p.ns = sts.ns /\ p.ready THEN "running" ELSE "stopped"

\* the status column reading a server with one replica as stopped
StatusOf_Inverted(sts) == IF sts.replicas = 0 THEN "running" ELSE "stopped"

\* ServerInfo.Status of ListServers
StatusOf(sts) == IF sts.replicas = 0 THEN "stopped" ELSE "running"

\* kubecraft server list
executeList(c) ==
    /\ cli[c].pc = "idle"
    /\ cli' = [cli EXCEPT ![c] = [Begin(c) EXCEPT !.cmd = "list", !.pc = "listServers"]]
    /\ UNCHANGED <<clusterVars, regVars>>

\* ListServers, first call: the StatefulSets of the namespace
ListServers(c) ==
    LET r == cli[c]
        items == Items({ s \in statefulsets : s.ns = ClientNamespace(c) })
    IN /\ r.pc = "listServers"
       /\ \E answer \in Answers(Nil) :
             cli' = [cli EXCEPT ![c] =
                IF answer # Nil
                THEN Failed(r, <<"couldn't list servers", "failed to list servers", answer>>)
                ELSE IF items = <<>> THEN Finished(r, "No servers found")
                ELSE At([r EXCEPT !.items = items], "listGetService")]
       /\ UNCHANGED <<clusterVars, regVars>>

\* ListServers, one turn of the loop: the service of the next StatefulSet
ListServersGet(c) ==
    LET r == cli[c]
        sts == Head(r.items)
        stored == { s \in services : s.ns = ClientNamespace(c) /\ s.name = sts.name }
        info == [name |-> sts.name, status |-> StatusOf(sts),
                 nodePort |-> (CHOOSE s \in stored : TRUE).nodePort]
        next == [r EXCEPT !.items = Tail(r.items), !.listed = Append(r.listed, info)]
    IN /\ r.pc = "listGetService"
       /\ \E answer \in Answers(IF stored = {} THEN "NotFound" ELSE Nil) :
             cli' = [cli EXCEPT ![c] =
                IF answer # Nil
                THEN Failed(r, <<"couldn't list servers",
                                 "failed to list servers when getting nodeport", answer>>)
                ELSE IF next.items = <<>> THEN Finished(next, "table")
                ELSE next]
       /\ UNCHANGED <<clusterVars, regVars>>

\* the process ends; the next command of the user starts a new one
Exit(c) ==
    /\ cli[c].pc = "done"
    /\ cli' = [cli EXCEPT ![c] =
                  [IdleClient(cli[c].user) EXCEPT !.prev =
                      IF cli[c].err = <<>> /\ cli[c].out # "cancelled"
                      THEN [cmd |-> cli[c].cmd, name |-> cli[c].name,
                            port |-> cli[c].port, ok |-> TRUE]
                      ELSE NoPrev]]
    /\ UNCHANGED <<clusterVars, regVars>>

(* ------------------------------------------------------------------ *)
(* Servers: what the cluster does with a StatefulSet                   *)
(* ------------------------------------------------------------------ *)
\* replica 0 of a StatefulSet with one replica: its claim and its pod
StatefulSetCreatesPod(s) ==
    /\ s \in statefulsets
    /\ s.replicas >= 1
    /\ ~\E p \in pods : p.ns = s.ns /\ p.name = s.name \o <<"-", "0">>
    /\ pods' = pods \cup {PodOf(s.ns, s.name, "Pending", FALSE)}
    /\ pvcs' = pvcs \cup {PvcOf(s.ns, s.name)}
    /\ cli' = Invalidate(cli, s.ns, s.name)
    /\ UNCHANGED <<tenantVars, services, statefulsets, regVars>>

\* the pod is scheduled and its container started
PodRuns(p) ==
    /\ p \in pods
    /\ p.phase = "Pending"
    /\ pods' = (pods \ {p}) \cup {[p EXCEPT !.phase = "Running"]}
    /\ UNCHANGED <<tenantVars, services, statefulsets, pvcs, regVars, cli>>

\* the readiness probe of the container succeeds
PodBecomesReady(p) ==
    /\ p \in pods
    /\ p.phase = "Running"
    /\ ~p.ready
    /\ pods' = (pods \ {p}) \cup {[p EXCEPT !.ready = TRUE]}
    /\ cli' = Invalidate(cli, p.ns, SubSeq(p.name, 1, Len(p.name) - 2))
    /\ UNCHANGED <<tenantVars, services, statefulsets, pvcs, regVars>>

\* the pod of a StatefulSet scaled to 0, or deleted, goes; its claim stays
PodRemoved(p) ==
    /\ p \in pods
    /\ ~\E s \in statefulsets : /\ s.ns = p.ns
                                /\ s.name \o <<"-", "0">> = p.name
                                /\ s.replicas >= 1
    /\ pods' = pods \ {p}
    /\ cli' = Invalidate(cli, p.ns, SubSeq(p.name, 1, Len(p.name) - 2))
    /\ UNCHANGED <<tenantVars, services, statefulsets, pvcs, regVars>>

(* ------------------------------------------------------------------ *)
(* Clusters to start from                                              *)
(* ------------------------------------------------------------------ *)
PreUsers(n) == { PreName(i) : i \in 0 .. n - 1 }
PreSubjects(n) == [i \in 1 .. n |-> Subject(PreName(i - 1), NamespacePrefix \o PreName(i - 1))]

\* n tenants onboarded
TenantsOf(n) ==
    /\ namespaces = { TenantNamespace(u) : u \in PreUsers(n) }
                        \cup {[name |-> SystemNamespace, app |-> "", user |-> <<>>]}
    /\ serviceAccounts = { [ns |-> NamespacePrefix \o u, name |-> u] : u \in PreUsers(n) }
    /\ roles = { [ns |-> NamespacePrefix \o u, name |-> UserRoleName] : u \in PreUsers(n) }
    /\ roleBindings = { TenantBinding(u) : u \in PreUsers(n) }
    /\ quotas = { [ns |-> NamespacePrefix \o u, name |-> QuotaName] : u \in PreUsers(n) }
    /\ crb = [exists |-> TRUE, rv |-> 0, subjects |-> PreSubjects(n)]

\* n tenants onboarded, the first k of them running a server each.
ClusterWith(n, k) ==
    /\ TenantsOf(n)
    /\ services = { ServiceOf(NamespacePrefix \o PreName(i), srv, McNodePortRangeMin + i) :
                        i \in 0 .. k - 1 }
    /\ statefulsets = { StatefulSetOf(NamespacePrefix \o PreName(i), srv, 1) : i \in 0 .. k - 1 }
    /\ pods = { PodOf(NamespacePrefix \o PreName(i), srv, "Running", TRUE) : i \in 0 .. k - 1 }
    /\ pvcs = { PvcOf(NamespacePrefix \o PreName(i), srv) : i \in 0 .. k - 1 }

\* every client idle, client c being tenant number first + c - 1
ClientsOf(first) == cli = [c \in Clients |-> IdleClient(PreName(first + c - 1))]

RegIdle ==
    /\ regNamespace = <<>>
    /\ rpc = [h \in Handlers |-> "idle"]
    /\ rReq = [h \in Handlers |-> NoReq]
    /\ rSolo = [h \in Handlers |-> FALSE]
    /\ rUser = [h \in Handlers |-> <<>>]
    /\ rCrb = [h \in Handlers |-> NoCrb]
    /\ rResp = [h \in Handlers |-> NoResp]
    /\ okCount = [u \in AllNames |-> 0]
    /\ adm = IdleAdmin

(* ------------------------------------------------------------------ *)
(* Registration server on a cluster with PreTenants tenants            *)
(* ------------------------------------------------------------------ *)
InitReg ==
    /\ ClusterWith(PreTenants, 1)
    /\ RegIdle
    /\ ClientsOf(0)

NextReg ==
    /\ UNCHANGED <<cli, adm>>
    /\ \E h \in Handlers :
           \/ \E req \in Requests(RegNames) :
                  RegReceive(h, req.method, req.jsonOk, req.username)
           \/ RegCount(h)
           \/ RegExists(h)
           \/ CreateNamespace(h)
           \/ CreateServiceAccount(h)
           \/ CreateRole(h)
           \/ CreateRoleBinding(h)
           \/ CreateResourceQuota(h)
           \/ AddUserGet(h)
           \/ AddUserUpdate(h)
           \/ RegGenerateToken(h)
           \/ RegReturn(h)

SpecReg == InitReg /\ [][NextReg]_vars

\* The same server on a cluster with one tenant more.
InitRegFull ==
    /\ ClusterWith(PreTenants + 1, 1)
    /\ RegIdle
    /\ ClientsOf(0)

SpecRegFull == InitRegFull /\ [][NextReg]_vars

(* ------------------------------------------------------------------ *)
(* The registration server started with or without the binding         *)
(* ------------------------------------------------------------------ *)
\* The ClusterRoleBinding kc-users-capacity-check is a manifest the
\* administrator applies; the namespaces of the tenants do not depend on it.
TenantObjects(n) ==
    /\ namespaces = { TenantNamespace(u) : u \in PreUsers(n) }
                        \cup {[name |-> SystemNamespace, app |-> "", user |-> <<>>]}
    /\ serviceAccounts = { [ns |-> NamespacePrefix \o u, name |-> u] : u \in PreUsers(n) }
    /\ roles = { [ns |-> NamespacePrefix \o u, name |-> UserRoleName] : u \in PreUsers(n) }
    /\ roleBindings = { TenantBinding(u) : u \in PreUsers(n) }
    /\ quotas = { [ns |-> NamespacePrefix \o u, name |-> QuotaName] : u \in PreUsers(n) }
NoBinding == [exists |-> FALSE, rv |-> 0, subjects |-> <<>>]

InitRegAny ==
    /\ TenantObjects(PreTenants)
    /\ crb \in { [exists |-> TRUE, rv |-> 0, subjects |-> PreSubjects(PreTenants)],
                  NoBinding }
    /\ services = {}
    /\ statefulsets = {}
    /\ pods = {}
    /\ pvcs = {}
    /\ RegIdle
    /\ ClientsOf(0)

SpecRegAny == InitRegAny /\ [][NextReg]_vars

(* ------------------------------------------------------------------ *)
(* One request at a time, over every username of the model             *)
(* ------------------------------------------------------------------ *)
NextRegOne ==
    /\ UNCHANGED <<cli, adm>>
    /\ \/ \E req \in Requests(AllNames) :
              RegReceive(1, req.method, req.jsonOk, req.username)
       \/ RegCount(1)
       \/ RegExists(1)
       \/ CreateNamespace(1)
       \/ CreateServiceAccount(1)
       \/ CreateRole(1)
       \/ CreateRoleBinding(1)
       \/ CreateResourceQuota(1)
       \/ AddUserGet(1)
       \/ AddUserUpdate(1)
       \/ RegGenerateToken(1)
       \/ RegReturn(1)

SpecRegOne == InitReg /\ [][NextRegOne]_vars

(* ------------------------------------------------------------------ *)
(* One registration at a time while the administrator removes tenants  *)
(* ------------------------------------------------------------------ *)
\* tenants onboarded before these behaviours start
ListTenants == 2
\* commands the administrator gives in one behaviour
MaxAdminRuns == 2
\* the usernames registered, and the tenants removed
ListNames == { alice, PreName(0) }
RemovedNames == { alice, PreName(0), PreName(1) }

InitList ==
    /\ TenantObjects(ListTenants)
    /\ crb \in { [exists |-> TRUE, rv |-> 0, subjects |-> PreSubjects(ListTenants)],
                  NoBinding }
    /\ services = { ServiceOf(NamespacePrefix \o PreName(0), srv, McNodePortRangeMin) }
    /\ statefulsets = { StatefulSetOf(NamespacePrefix \o PreName(0), srv, 0) }
    /\ pods = {}
    /\ pvcs = { PvcOf(NamespacePrefix \o PreName(0), srv) }
    /\ RegIdle
    /\ ClientsOf(0)

NextList ==
    \/ /\ UNCHANGED <<cli, adm>>
       /\ \/ \E u \in ListNames : RegReceive(1, "POST", TRUE, u)
          \/ RegCount(1)
          \/ RegExists(1)
          \/ CreateNamespace(1)
          \/ CreateServiceAccount(1)
          \/ CreateRole(1)
          \/ CreateRoleBinding(1)
          \/ CreateResourceQuota(1)
          \/ AddUserGet(1)
          \/ AddUserUpdate(1)
          \/ RegGenerateToken(1)
          \/ RegReturn(1)
    \/ \E u \in RemovedNames : adm.runs < MaxAdminRuns /\ ScriptStart(u)
    \/ ScriptCheckNamespace
    \/ ScriptDeleteNamespace
    \/ ScriptGetSubjects
    \/ ScriptPatch
    \/ \E u \in ListNames : \E ns \in {NamespacePrefix \o u, regNamespace} :
           adm.runs < MaxAdminRuns /\ RemoveUserGet(u, ns)
    \/ RemoveUserUpdate
    \/ AdminReturn

SpecList == InitList /\ [][NextList]_vars

(* ------------------------------------------------------------------ *)
(* One client running every command, RunningServers other servers up   *)
(* ------------------------------------------------------------------ *)
\* the replica counts ScaleServer is called with
ScaleArgs == -1 .. 2

InitSrv ==
    /\ ClusterWith(RunningServers + NumClients, RunningServers)
    /\ RegIdle
    /\ ClientsOf(RunningServers)

NextSrv ==
    \/ \E n \in ServerNames : execute(1, n)
    \/ \E n \in ServerNames : executeStart(1, n)
    \/ \E n \in ServerNames : executeStop(1, n)
    \/ \E n \in ServerNames : \E input \in {n, <<>>} : executeDelete(1, n, input)
    \/ \E n \in ServerNames, k \in ScaleArgs : CallScaleServer(1, n, k)
    \/ executeList(1)
    \/ ListServers(1)
    \/ ListServersGet(1)
    \/ ServerExists(1)
    \/ CheckNodeCapacity(1)
    \/ AllocateNodePort(1)
    \/ CreateServerService(1)
    \/ CreateServerStatefulSet(1)
    \/ CreateServerCleanup(1)
    \/ WaitForReady(1)
    \/ ScaleServerGet(1)
    \/ ScaleServerUpdate(1)
    \/ GetNodePort(1)
    \/ DeleteServerStatefulSet(1)
    \/ DeleteServerService(1)
    \/ DeleteServerPvc(1)
    \/ Exit(1)
    \/ \E s \in statefulsets : StatefulSetCreatesPod(s)
    \/ \E p \in pods : PodRuns(p)
    \/ \E p \in pods : PodBecomesReady(p)
    \/ \E p \in pods : PodRemoved(p)

SpecSrv == InitSrv /\ [][NextSrv]_vars

(* ------------------------------------------------------------------ *)
(* NumClients tenants creating a server at the same time               *)
(* ------------------------------------------------------------------ *)
NextRace ==
    \/ \E c \in Clients :
           \/ execute(c, srv)
           \/ ServerExists(c)
           \/ CheckNodeCapacity(c)
           \/ AllocateNodePort(c)
           \/ CreateServerService(c)
           \/ CreateServerStatefulSet(c)
           \/ CreateServerCleanup(c)
           \/ WaitForReady(c)
           \/ Exit(c)
    \/ \E s \in statefulsets : StatefulSetCreatesPod(s)
    \/ \E p \in pods : PodRuns(p)
    \/ \E p \in pods : PodBecomesReady(p)

SpecRace == InitSrv /\ [][NextRace]_vars

(* ------------------------------------------------------------------ *)
(* AllocateNodePort over every set of ports in use                     *)
(* ------------------------------------------------------------------ *)
new == <<"n", "e", "w">>
srv2 == <<"s", "r", "v", "2">>

\* the stopped server holding port p: one per tenant, then a second one
HolderOf(p) == NamespacePrefix \o PreName(0)
ServerOn(p) == <<"s", DigitChar[((p - McNodePortRangeMin) \div 10) + 1],
                 DigitChar[((p - McNodePortRangeMin) % 10) + 1]>>

InitAlloc ==
    /\ \E taken \in SUBSET (McNodePortRangeMin .. McNodePortRangeMax) :
          /\ services = { ServiceOf(HolderOf(p), ServerOn(p), p) : p \in taken }
          /\ statefulsets = { StatefulSetOf(HolderOf(p), ServerOn(p), 0) : p \in taken }
    /\ pvcs = {}
    /\ pods = {}
    /\ TenantsOf(NumClients)
    /\ RegIdle
    /\ cli = [c \in Clients |->
                 IF c = 1
                 THEN [IdleClient(PreName(0)) EXCEPT !.cmd = "create", !.name = new,
                                                     !.pc = "allocateNodePort"]
                 ELSE IdleClient(PreName(c - 1))]

NextAlloc == AllocateNodePort(1)

SpecAlloc == InitAlloc /\ [][NextAlloc]_vars

(* ------------------------------------------------------------------ *)
(* One tenant creating servers under two names                         *)
(* ------------------------------------------------------------------ *)
\* the names given to 'server create'
CreateNames == { srv, srv2 }

InitTwo ==
    /\ ClusterWith(NumClients, 0)
    /\ RegIdle
    /\ ClientsOf(0)

NextTwo ==
    \/ \E n \in CreateNames : execute(1, n)
    \/ ServerExists(1)
    \/ CheckNodeCapacity(1)
    \/ AllocateNodePort(1)
    \/ CreateServerService(1)
    \/ CreateServerStatefulSet(1)
    \/ CreateServerCleanup(1)
    \/ WaitForReady(1)
    \/ Exit(1)
    \/ \E s \in statefulsets : StatefulSetCreatesPod(s)
    \/ \E p \in pods : PodRuns(p)
    \/ \E p \in pods : PodBecomesReady(p)

SpecTwo == InitTwo /\ [][NextTwo]_vars

(* ------------------------------------------------------------------ *)
(* CheckNodeCapacity over sets of pods                                 *)
(* ------------------------------------------------------------------ *)
\* pods the sum must leave out: a server pod not yet running, and a running
\* pod that is not a server
OtherPods ==
    { PodOf(NamespacePrefix \o PreName(0), srv2, "Pending", FALSE),
      [ns |-> SystemNamespace, name |-> <<"r", "e", "g">>, app |-> "registration",
       phase |-> "Running", ready |-> TRUE, requestsKi |-> <<64 * 1024, 64 * 1024>>,
       limitsKi |-> <<128 * 1024, 128 * 1024>>] }

InitCapacity ==
    /\ \E k \in 0 .. MaxUsers, others \in SUBSET OtherPods :
          /\ services = { ServiceOf(NamespacePrefix \o PreName(i), srv, McNodePortRangeMin + i) :
                              i \in 0 .. MaxUsers - 1 }
          /\ statefulsets = { StatefulSetOf(NamespacePrefix \o PreName(i), srv,
                                            IF i < k THEN 1 ELSE 0) : i \in 0 .. MaxUsers - 1 }
          /\ pods = { PodOf(NamespacePrefix \o PreName(i), srv, "Running", TRUE) :
                          i \in 0 .. k - 1 } \cup others
          /\ pvcs = { PvcOf(NamespacePrefix \o PreName(i), srv) : i \in 0 .. MaxUsers - 1 }
    /\ TenantsOf(MaxUsers)
    /\ RegIdle
    /\ cli = [c \in Clients |->
                 IF c = 1
                 THEN [IdleClient(PreName(0)) EXCEPT !.cmd = "create", !.name = new,
                                                     !.pc = "checkNodeCapacity"]
                 ELSE IdleClient(PreName(c - 1))]

NextCapacity == CheckNodeCapacity(1)

SpecCapacity == InitCapacity /\ [][NextCapacity]_vars

(* ------------------------------------------------------------------ *)
(* Vocabulary of the properties                                        *)
(* ------------------------------------------------------------------ *)
\* the tenant-name rule of the data model
WellFormedName(u) ==
    /\ Len(u) >= 3
    /\ Len(u) <= 16
    /\ \A i \in 1 .. Len(u) : u[i] \in LowerAZ \cup Digit09
    /\ u[1] \in LowerAZ
    /\ u \notin ReservedUserNames

HasNamespace(u) == \E n \in namespaces : n.name = <<"m", "c", "-">> \o u
TenantCount == Cardinality({ n \in namespaces : n.app = "kubecraft" })

ValidationMessages ==
    { "username must be 3-16 characters long",
      "username must only contain lowercase letters and numbers",
      "username must start with a lowercase letter",
      "username is reserved" }

IsConflictError(r) == r.status = "error" /\ r.code = 409
IsValidationError(r) ==
    r.status = "error" /\ r.code = 400 /\ r.message \in ValidationMessages
IsQuotaExceededError(r) == r.status = "error" /\ r.message = "max user limit reached"
IsSuccess(r) == r.status = "success" /\ r.code = 201

\* the request of h carries a username
Decoded(h) == rReq[h].method = "POST" /\ rReq[h].jsonOk

C2_InvalidNameRejected ==
    /\ [](\A h \in Handlers :
             (rpc[h] # "idle" /\ Decoded(h) /\ ~WellFormedName(rReq[h].username))
                 => rpc[h] = "done" /\ IsValidationError(rResp[h]))
    /\ [][(\E h \in Handlers :
              rpc'[h] # "idle" /\ rReq'[h].method = "POST" /\ rReq'[h].jsonOk
                  /\ ~WellFormedName(rReq'[h].username))
             => UNCHANGED clusterVars]_vars

\* C2 witness: the 17-character name has been rejected.
C2_Witness ==
    /\ rpc[1] = "done"
    /\ Decoded(1)
    /\ Len(rReq[1].username) = 17
    /\ IsValidationError(rResp[1])

C4_UniqueTenant ==
    /\ \A u \in AllNames : okCount[u] <= 1
    /\ \A h1, h2 \in Handlers :
           (h1 # h2 /\ rpc[h1] = "done" /\ rpc[h2] = "done"
                /\ IsSuccess(rResp[h1]) /\ IsSuccess(rResp[h2]))
               => rUser[h1] # rUser[h2]

\* C4 witness: two requests for alice both passed the namespace check;
\* one was answered with success, the other failed at the namespace create.
C4_Witness ==
    \E h1, h2 \in Handlers :
        /\ h1 # h2
        /\ rUser[h1] = alice /\ rUser[h2] = alice
        /\ rpc[h1] = "done" /\ IsSuccess(rResp[h1])
        /\ rpc[h2] = "done" /\ rResp[h2].message = "failed to create namespace"

(* ------------------------------------------------------------------ *)
(* Vocabulary of the properties: servers                               *)
(* ------------------------------------------------------------------ *)
\* the error classes of a command, read off the error it returned
Cause(err) == IF err = <<>> THEN "" ELSE err[Len(err)]
IsExhaustedError(err) == Cause(err) = "no available ports found in range"
IsInsufficientCapacityError(err) ==
    err = <<"not enough ram available to allocate to server">>
IsServerConflictError(err) ==
    \/ err = <<"server already exists">>
    \/ Cause(err) \in {"AlreadyExists", "Conflict"}
IsListFailure(err) == Cause(err) \in Faults

\* ports held by endpoint objects, and the ports of the range still free
AssignedPorts == { s.nodePort : s \in services }
FreePorts == (30000 .. 30015) \ AssignedPorts

\* summed memory requests of the running workload instances, in MiB
RECURSIVE SeqSum(_)
SeqSum(q) == IF q = <<>> THEN 0 ELSE Head(q) + SeqSum(Tail(q))
RECURSIVE RequestedKi(_)
RequestedKi(ps) ==
    IF ps = {} THEN 0
    ELSE LET p == CHOOSE x \in ps : TRUE
         IN SeqSum(p.requestsKi) + RequestedKi(ps \ {p})
RunningWorkloads == { p \in pods : p.app = "minecraft" /\ p.phase = "Running" }
RunningRequestsMi == RequestedKi(RunningWorkloads) \div 1024
Headroom == 14336 - RunningRequestsMi
WorkloadLimitMi == ServerMemoryLimitKi \div 1024
WorkloadRequestMi == ServerMemoryRequestKi \div 1024

\* the lifecycle state of workload name of the tenant namespace ns
StateOf(ns, name) ==
    LET stored == { s \in statefulsets : s.ns = ns /\ s.name = name }
    IN IF stored = {} THEN "Absent"
       ELSE IF \A s \in stored : s.replicas = 0 THEN "Stopped"
       ELSE IF \A s \in stored : s.replicas = 1 THEN "Running"
       ELSE "Other"
TenantNamespaces == { n.name : n \in { m \in namespaces : m.app = "kubecraft" } }
Workloads == TenantNamespaces \X ServerNames

(* ------------------------------------------------------------------ *)
(* C5                                                                  *)
(* ------------------------------------------------------------------ *)
\* C5: whatever ports are assigned, the allocator returns the lowest port of
\* 30000..30015 that no endpoint object holds, and it fails with the
\* exhausted error exactly when every port of the range is assigned (a
\* failure to list the endpoint objects aside).
C5_LowestFreePort ==
    \A c \in Clients :
        /\ cli[c].pc = "createService"
              => /\ cli[c].port \in FreePorts
                 /\ \A q \in FreePorts : cli[c].port <= q
        /\ (cli[c].pc = "done" /\ cli[c].cmd = "create")
              => \/ IsListFailure(cli[c].err)
                 \/ IsExhaustedError(cli[c].err) /\ FreePorts = {}

\* C5 witness: 30000..30014 are assigned and the allocator returned 30015.
C5_Witness ==
    /\ AssignedPorts = 30000 .. 30014
    /\ cli[1].pc = "createService"
    /\ cli[1].port = 30015

C7_CollisionIsConflictError ==
    \A c \in Clients :
        (/\ cli[c].pc = "done"
         /\ cli[c].cmd = "create"
         /\ Cause(cli[c].err) = "Invalid"
         /\ \E s \in services : s.nodePort = cli[c].port /\ s.ns # ClientNamespace(c))
            => IsServerConflictError(cli[c].err)

(* ------------------------------------------------------------------ *)
(* C8                                                                  *)
(* ------------------------------------------------------------------ *)
\* C8: the capacity check fails with the insufficient-capacity error exactly
\* when 14336 MiB minus the summed requests of the running workloads is
\* below the memory limit of one workload, that is when the sum plus one
\* limit exceeds the total; otherwise it passes, so it passes when nothing
\* runs (a failure to list the pods aside).
C8_CapacityAdmission ==
    /\ (Headroom < WorkloadLimitMi) <=> (RunningRequestsMi + WorkloadLimitMi > 14336)
    /\ \A c \in Clients :
          /\ cli[c].pc = "allocateNodePort" => Headroom >= WorkloadLimitMi
          /\ (cli[c].pc = "done" /\ cli[c].cmd = "create")
                => \/ IsListFailure(cli[c].err)
                   \/ /\ IsInsufficientCapacityError(cli[c].err)
                      /\ Headroom < WorkloadLimitMi
          /\ (RunningWorkloads = {} /\ cli[c].pc = "done") => IsListFailure(cli[c].err)

\* C8 witness: six workloads run, 2048 MiB are left, and the check failed.
C8_Witness ==
    /\ Cardinality(RunningWorkloads) = 6
    /\ Headroom = 2048
    /\ cli[1].pc = "done"
    /\ IsInsufficientCapacityError(cli[1].err)

(* ------------------------------------------------------------------ *)
(* C9                                                                  *)
(* ------------------------------------------------------------------ *)
\* C9: the admission check reserves nothing: the step that makes it changes
\* no object, and it passes whenever the workloads running at that moment
\* leave one workload's limit free, whatever other Create calls have already
\* been admitted but are not running yet.  So two Create calls can pass it
\* against the same sum and both run (the witness).
C9_AdmissionReservesNothing ==
    [][\A c \in Clients :
          (cli[c].pc = "checkNodeCapacity" /\ cli'[c].pc # "checkNodeCapacity")
             => /\ UNCHANGED clusterVars
                /\ cli'[c].pc = "done" =>
                      \/ IsListFailure(cli'[c].err)
                      \/ Headroom < WorkloadLimitMi
                /\ cli'[c].pc = "allocateNodePort" =>
                      cli'[c].total = RunningRequestsMi]_vars

\* C9 witness: both Create calls were admitted against a sum of 10240 MiB,
\* the instances of both run, and the memory left is below the 2048 MiB that
\* admitting them one after the other would have kept free.
C9_Witness ==
    /\ \A c \in Clients :
          /\ cli[c].cmd = "create"
          /\ cli[c].pc \in {"waitForReady", "done"}
          /\ cli[c].err = <<>>
          /\ cli[c].total = 10240
          /\ \E p \in RunningWorkloads : p.ns = ClientNamespace(c)
    /\ Headroom < WorkloadLimitMi - WorkloadRequestMi

(* ------------------------------------------------------------------ *)
(* C10                                                                 *)
(* ------------------------------------------------------------------ *)
\* C10 as stated: every workload is Absent, Stopped or Running and moves
\* only along Absent -> Stopped, Stopped <-> Running, Running -> Absent and
\* Stopped -> Absent; the replica count is never other than 0 or 1.
C10_Lifecycle ==
    /\ [](\A s \in statefulsets : s.replicas \in {0, 1})
    /\ [][\A w \in Workloads :
             \/ StateOf(w[1], w[2])' = StateOf(w[1], w[2])
             \/ <<StateOf(w[1], w[2]), StateOf(w[1], w[2])'>> \in
                   { <<"Absent", "Stopped">>, <<"Stopped", "Running">>,
                     <<"Running", "Stopped">>, <<"Running", "Absent">>,
                     <<"Stopped", "Absent">> }]_vars

\* C10 amended: every workload is Absent, Stopped or Running; Create takes it
\* from Absent to Running, Stop and Start take it between Running and
\* Stopped, Delete takes it to Absent from either; it never goes from Absent
\* to Stopped, and the replica count is never other than 0 or 1.
C10_LifecycleFromRunning ==
    /\ [](\A s \in statefulsets : s.replicas \in {0, 1})
    /\ [][\A w \in Workloads :
             \/ StateOf(w[1], w[2])' = StateOf(w[1], w[2])
             \/ <<StateOf(w[1], w[2]), StateOf(w[1], w[2])'>> \in
                   { <<"Absent", "Running">>, <<"Stopped", "Running">>,
                     <<"Running", "Stopped">>, <<"Running", "Absent">>,
                     <<"Stopped", "Absent">> }]_vars

\* C10 witness: Create has just made the workload, with one replica.
C10_Witness ==
    /\ cli[1].cmd = "create"
    /\ cli[1].pc = "waitForReady"
    /\ cli[1].attempt = 0
    /\ StateOf(ClientNamespace(1), srv) = "Running"
    /\ ~\E p \in pods : p.ns = ClientNamespace(1)

(* ------------------------------------------------------------------ *)
(* Vocabulary of the properties: one command after the other          *)
(* ------------------------------------------------------------------ *)
\* client c has finished a List without error, straight after its successful
\* command cmd
ListedAfter(c, cmd) ==
    /\ cli[c].pc = "done"
    /\ cli[c].cmd = "list"
    /\ cli[c].err = <<>>
    /\ cli[c].prev.ok
    /\ cli[c].prev.cmd = cmd
\* the entries of the List of client c that are named name
EntriesOf(c, name) ==
    { i \in 1 .. Len(cli[c].listed) : cli[c].listed[i].name = name }

(* ------------------------------------------------------------------ *)
(* C11                                                                 *)
(* ------------------------------------------------------------------ *)
\* C11: a List that a tenant runs straight after its successful Create of W
\* has exactly one entry named W, with status running and with the port
\* that Create returned.
C11_CreateThenList ==
    \A c \in Clients :
        ListedAfter(c, "create")
           => /\ Cardinality(EntriesOf(c, cli[c].prev.name)) = 1
              /\ \A i \in EntriesOf(c, cli[c].prev.name) :
                    /\ cli[c].listed[i].status = "running"
                    /\ cli[c].listed[i].nodePort = cli[c].prev.port

\* C11 witness: Create of srv returned port 30005 and the List after it shows
\* srv, running, on 30005.
C11_Witness ==
    /\ ListedAfter(1, "create")
    /\ cli[1].prev.name = srv
    /\ cli[1].prev.port = 30005
    /\ cli[1].listed = <<[name |-> srv, status |-> "running", nodePort |-> 30005]>>

(* ------------------------------------------------------------------ *)
(* C12                                                                 *)
(* ------------------------------------------------------------------ *)
\* C12: a List straight after a successful Stop of W shows W stopped, a List
\* straight after a successful Start of W shows W running, and as long as
\* the tenant runs neither Create nor Delete no step removes or alters an
\* endpoint object (so the port stays) or removes a storage claim.
C12_StopStartRoundTrip ==
    /\ [](\A c \in Clients :
             /\ ListedAfter(c, "stop")
                   => /\ EntriesOf(c, cli[c].prev.name) # {}
                      /\ \A i \in EntriesOf(c, cli[c].prev.name) :
                            cli[c].listed[i].status = "stopped"
             /\ ListedAfter(c, "start")
                   => /\ EntriesOf(c, cli[c].prev.name) # {}
                      /\ \A i \in EntriesOf(c, cli[c].prev.name) :
                            cli[c].listed[i].status = "running")
    /\ [][(\A c \in Clients : cli[c].cmd \notin {"create", "delete"})
             => /\ services' = services
                /\ pvcs \subseteq pvcs']_vars

\* C12 witness: srv ran, was stopped, its pod is gone, and the List after the
\* Stop shows it stopped while its storage claim and its endpoint object on
\* port 30005 are still there.
C12_Witness ==
    /\ ListedAfter(1, "stop")
    /\ cli[1].listed = <<[name |-> srv, status |-> "stopped", nodePort |-> 30005]>>
    /\ PvcOf(ClientNamespace(1), srv) \in pvcs
    /\ \E s \in services :
          s.ns = ClientNamespace(1) /\ s.name = srv /\ s.nodePort = 30005
    /\ ~\E p \in pods : p.ns = ClientNamespace(1)

(* ------------------------------------------------------------------ *)
(* C13                                                                 *)
(* ------------------------------------------------------------------ *)
IsNotFoundError(err) == err = <<"server does not exist">> \/ Cause(err) = "NotFound"

\* C13: a List straight after a successful Delete of W has no entry named W;
\* a Delete of a workload that is absent ends at its existence check with the
\* not-found error (a failure of that call aside) and changes no object.
C13_Delete ==
    /\ [](\A c \in Clients :
             ListedAfter(c, "delete") => EntriesOf(c, cli[c].prev.name) = {})
    /\ [][\A c \in Clients :
             (/\ cli[c].cmd = "delete"
              /\ cli[c].pc = "serverExists"
              /\ cli'[c].pc # "serverExists"
              /\ StateOf(ClientNamespace(c), cli[c].name) = "Absent")
                => /\ UNCHANGED clusterVars
                   /\ cli'[c].pc = "done"
                   /\ \/ IsNotFoundError(cli'[c].err)
                      \/ IsListFailure(cli'[c].err)]_vars

\* C13 witness: srv was deleted, and the List after it found no server.
C13_Witness ==
    /\ ListedAfter(1, "delete")
    /\ cli[1].prev.name = srv
    /\ cli[1].listed = <<>>
    /\ cli[1].out = "No servers found"
    /\ StateOf(ClientNamespace(1), srv) = "Absent"

(* ------------------------------------------------------------------ *)
(* C14                                                                 *)
(* ------------------------------------------------------------------ *)
\* C14: a Create of a name under which the tenant has a workload, running or
\* stopped, ends at its existence check with the conflict error (a failure
\* of that call aside) and changes no object.
C14_CreateExistingConflicts ==
    [][\A c \in Clients :
          (/\ cli[c].cmd = "create"
           /\ cli[c].pc = "serverExists"
           /\ cli'[c].pc # "serverExists"
           /\ StateOf(ClientNamespace(c), cli[c].name) \in {"Running", "Stopped"})
             => /\ UNCHANGED clusterVars
                /\ cli'[c].pc = "done"
                /\ \/ IsServerConflictError(cli'[c].err)
                   \/ IsListFailure(cli'[c].err)]_vars

\* C14 witness: srv is stopped and a Create of srv was refused.
C14_Witness ==
    /\ cli[1].cmd = "create"
    /\ cli[1].name = srv
    /\ cli[1].pc = "done"
    /\ cli[1].err = <<"server already exists">>
    /\ StateOf(ClientNamespace(1), srv) = "Stopped"

(* ------------------------------------------------------------------ *)
(* C15                                                                 *)
(* ------------------------------------------------------------------ *)
\* the endpoint object of the workload client c names exists
HasEndpoint(c) ==
    \E s \in services : s.ns = ClientNamespace(c) /\ s.name = cli[c].name
\* Create of client c has returned the error of its StatefulSet create
StatefulSetCreateFailed(c) ==
    /\ cli[c].cmd = "create"
    /\ cli[c].pc = "done"
    /\ Len(cli[c].err) >= 2
    /\ cli[c].err[2] = "failed to create server (statefulset)"

\* C15: Create makes the endpoint object before the stateful-workload
\* object, and when the creation of the stateful-workload object fails no
\* endpoint object of that workload is left when Create returns.
C15_NoOrphanedEndpoint ==
    /\ [][\A c \in Clients :
             (cli[c].pc = "createStatefulSet" /\ cli'[c].pc # "createStatefulSet")
                => HasEndpoint(c)]_vars
    /\ [](\A c \in Clients : StatefulSetCreateFailed(c) => ~HasEndpoint(c))

(* ------------------------------------------------------------------ *)
(* C16                                                                 *)
(* ------------------------------------------------------------------ *)
IsTimeoutError(err) == Cause(err) = "timed out waiting for server to become ready"
\* the instance of the workload client c names reports ready
InstanceReady(c) ==
    \E p \in pods : /\ p.ns = ClientNamespace(c)
                    /\ p.name = cli[c].name \o <<"-", "0">>
                    /\ p.ready
HasStatefulSet(c) ==
    \E s \in statefulsets : s.ns = ClientNamespace(c) /\ s.name = cli[c].name

\* C16: when the 30th poll of a Create still does not see the instance
\* ready, Create returns the timeout error and that step changes no object;
\* the endpoint object and the stateful-workload object it made are there
\* when it has returned.
C16_TimeoutLeavesObjects ==
    /\ [][\A c \in Clients :
             (/\ cli[c].cmd = "create"
              /\ cli[c].pc = "waitForReady"
              /\ cli[c].attempt = 29
              /\ ~InstanceReady(c)
              /\ cli'[c] # cli[c])
                => /\ cli'[c].pc = "done"
                   /\ IsTimeoutError(cli'[c].err)
                   /\ UNCHANGED clusterVars]_vars
    /\ [](\A c \in Clients :
             (cli[c].cmd = "create" /\ cli[c].pc = "done" /\ IsTimeoutError(cli[c].err))
                => HasEndpoint(c) /\ HasStatefulSet(c))

\* C16 witness: Create of srv timed out after 30 polls while its pod was
\* pending; the service and the StatefulSet are stored.
C16_Witness ==
    /\ cli[1].cmd = "create"
    /\ cli[1].pc = "done"
    /\ IsTimeoutError(cli[1].err)
    /\ cli[1].attempt = 30
    /\ HasEndpoint(1) /\ HasStatefulSet(1)
    /\ \E p \in pods : p.ns = ClientNamespace(1) /\ p.phase = "Pending"

(* ------------------------------------------------------------------ *)
(* C17                                                                 *)
(* ------------------------------------------------------------------ *)
\* C17: the readiness poll makes at most 30 polls; it returns success at the
\* poll that sees the instance ready, without sleeping again; and when it
\* returns the timeout error it has slept only between polls, not after the
\* last one.
C17_PromptPoll ==
    /\ [](\A c \in Clients :
             /\ cli[c].attempt <= 30
             /\ (cli[c].pc = "done" /\ IsTimeoutError(cli[c].err))
                   => cli[c].sleeps < cli[c].attempt)
    /\ [][\A c \in Clients :
             (cli[c].pc = "waitForReady" /\ cli'[c].pc \in {"getNodePort", "done"}
                  /\ ~IsTimeoutError(cli'[c].err))
                => /\ InstanceReady(c)
                   /\ cli'[c].attempt = cli[c].attempt
                   /\ cli'[c].sleeps = cli[c].sleeps]_vars


(* ------------------------------------------------------------------ *)
(* C18                                                                 *)
(* ------------------------------------------------------------------ *)
\* client c runs Start or Stop
StartOrStop(c) == cli[c].cmd \in {"start", "stop"}
\* the state Start and Stop ask for
Wanted(cmd) == IF cmd = "start" THEN "Running" ELSE "Stopped"

\* C18: a Start or a Stop of an absent workload ends at its existence check
\* with the not-found error (a failure of that call aside) and changes no
\* object, and so does ScaleServer called directly; for a workload that is
\* there the check lets the command through to ScaleServer, whose Update, when
\* it is answered without error, leaves the desired replica count at 1 for
\* Start and at 0 for Stop and changes nothing else; Stop is then done, and
\* Start goes into the readiness poll from its first attempt, which takes the
\* same steps as the poll of Create: it ends at the poll that sees the
\* instance ready, and otherwise counts the attempt and gives the timeout
\* error at the 30th.
C18_StartStop ==
    /\ [][\A c \in Clients :
             (/\ StartOrStop(c)
              /\ cli[c].pc = "serverExists"
              /\ cli'[c].pc # "serverExists")
                => IF StateOf(ClientNamespace(c), cli[c].name) = "Absent"
                   THEN /\ UNCHANGED clusterVars
                        /\ cli'[c].pc = "done"
                        /\ \/ IsNotFoundError(cli'[c].err)
                           \/ IsListFailure(cli'[c].err)
                   ELSE /\ UNCHANGED clusterVars
                        /\ \/ cli'[c].pc = "scaleGet"
                           \/ cli'[c].pc = "done" /\ IsListFailure(cli'[c].err)]_vars
    /\ [][\A c \in Clients :
             (/\ cli[c].pc = "scaleGet"
              /\ cli[c].replicas \in {0, 1}
              /\ cli'[c].pc # "scaleGet"
              /\ StateOf(ClientNamespace(c), cli[c].name) = "Absent")
                => /\ UNCHANGED clusterVars
                   /\ cli'[c].pc = "done"
                   /\ \/ IsNotFoundError(cli'[c].err)
                      \/ IsListFailure(cli'[c].err)]_vars
    /\ [][\A c \in Clients :
             (/\ StartOrStop(c)
              /\ cli[c].pc = "scaleUpdate"
              /\ cli'[c].pc # "scaleUpdate")
                => IF cli'[c].err = <<>>
                   THEN /\ StateOf(ClientNamespace(c), cli[c].name)' = Wanted(cli[c].cmd)
                        /\ UNCHANGED <<tenantVars, services, pods, pvcs>>
                        /\ \A w \in Workloads :
                              w # <<ClientNamespace(c), cli[c].name>>
                                 => StateOf(w[1], w[2])' = StateOf(w[1], w[2])
                        /\ IF cli[c].cmd = "start"
                           THEN cli'[c].pc = "waitForReady" /\ cli'[c].attempt = 0
                           ELSE cli'[c].pc = "done"
                   ELSE /\ UNCHANGED clusterVars
                        /\ cli'[c].pc = "done"]_vars
    /\ [][\A c \in Clients :
             (/\ cli[c].cmd \in {"create", "start"}
              /\ cli[c].pc = "waitForReady"
              /\ cli'[c] # cli[c])
                => /\ UNCHANGED clusterVars
                   /\ \/ /\ InstanceReady(c)
                         /\ cli'[c].attempt = cli[c].attempt
                         /\ cli'[c].err = <<>>
                         /\ cli'[c].pc = IF cli[c].cmd = "start" THEN "getNodePort"
                                                                 ELSE "done"
                      \/ /\ cli'[c].attempt = cli[c].attempt + 1
                         /\ IF cli'[c].attempt < 30
                            THEN cli'[c].pc = "waitForReady" /\ cli'[c].err = <<>>
                            ELSE cli'[c].pc = "done" /\ IsTimeoutError(cli'[c].err)]_vars

\* C18 witness: srv was stopped by a Stop that succeeded, and the Start after
\* it has set the replica count to 1 and is before its first poll.
C18_Witness ==
    /\ cli[1].cmd = "start"
    /\ cli[1].name = srv
    /\ cli[1].pc = "waitForReady"
    /\ cli[1].attempt = 0
    /\ cli[1].prev.ok /\ cli[1].prev.cmd = "stop" /\ cli[1].prev.name = srv
    /\ StateOf(ClientNamespace(1), srv) = "Running"


(* ------------------------------------------------------------------ *)
(* C19                                                                 *)
(* ------------------------------------------------------------------ *)
\* the claim of the workload client c names
HasClaim(c) ==
    \E v \in pvcs : /\ v.ns = ClientNamespace(c)
                    /\ v.name = <<"m", "c", "-">> \o cli[c].name \o <<"-", "0">>
\* the sub-resource the error of a Delete names
ReportedSubResource(err) ==
    IF Len(err) < 2 THEN "none"
    ELSE CASE err[2] = "failed to delete server (statefulset)" -> "statefulset"
           [] err[2] = "failed to delete server (service)" -> "service"
           [] err[2] = "failed to delete pvc (service)" -> "pvc"
           [] OTHER -> "none"
\* the sub-resource a step of DeleteServer deletes
SubResourceAt(pc) ==
    CASE pc = "deleteStatefulSet" -> "statefulset"
      [] pc = "deleteService" -> "service"
      [] pc = "deletePvc" -> "pvc"
      [] OTHER -> "none"
\* Delete of client c has returned
DeleteReturned(c) ==
    cli[c].cmd = "delete" /\ cli[c].pc = "done" /\ cli[c].out # "cancelled"

\* C19: DeleteServer deletes the StatefulSet, the service and the claim in
\* that order.  A deletion that is refused ends Delete at that step with an
\* error that names the sub-resource and carries the cause, and changes
\* nothing; a deletion that is accepted removes its object and goes on to the
\* next.  So a Delete that returned without error has removed all three; one
\* that returned the error of the service or of the claim had removed the
\* sub-resources before it; and a Delete that got past its existence check
\* never returns without either.
C19_DeleteReportsEachFailure ==
    /\ [][\A c \in Clients :
             (/\ cli[c].cmd = "delete"
              /\ SubResourceAt(cli[c].pc) # "none"
              /\ cli'[c].pc # cli[c].pc)
                => IF cli'[c].err = <<>>
                   THEN /\ cli'[c].pc = CASE cli[c].pc = "deleteStatefulSet" -> "deleteService"
                                          [] cli[c].pc = "deleteService" -> "deletePvc"
                                          [] OTHER -> "done"
                        /\ CASE cli[c].pc = "deleteStatefulSet" ->
                                   HasStatefulSet(c) /\ ~HasStatefulSet(c)'
                             [] cli[c].pc = "deleteService" ->
                                   HasEndpoint(c) /\ ~HasEndpoint(c)'
                             [] OTHER -> HasClaim(c) /\ ~HasClaim(c)'
                   ELSE /\ cli'[c].pc = "done"
                        /\ ReportedSubResource(cli'[c].err) = SubResourceAt(cli[c].pc)
                        /\ Cause(cli'[c].err) \in Faults \cup {"NotFound"}
                        /\ UNCHANGED clusterVars]_vars
    /\ [](\A c \in Clients :
             DeleteReturned(c) =>
                /\ cli[c].err = <<>>
                      => ~HasStatefulSet(c) /\ ~HasEndpoint(c) /\ ~HasClaim(c)
                /\ ReportedSubResource(cli[c].err) = "service" => ~HasStatefulSet(c)
                /\ ReportedSubResource(cli[c].err) = "pvc"
                      => ~HasStatefulSet(c) /\ ~HasEndpoint(c)
                /\ (cli[c].err # <<>> /\ ReportedSubResource(cli[c].err) = "none")
                      => \/ IsNotFoundError(cli[c].err)
                         \/ IsListFailure(cli[c].err))

\* C19 witness: the StatefulSet of srv was deleted, the delete of its service
\* was refused, and Delete returned the error naming the service; the service
\* and the claim are still stored.
C19_Witness ==
    /\ DeleteReturned(1)
    /\ cli[1].name = srv
    /\ ReportedSubResource(cli[1].err) = "service"
    /\ ~HasStatefulSet(1)
    /\ HasEndpoint(1)
    /\ HasClaim(1)


(* ------------------------------------------------------------------ *)
(* C20                                                                 *)
(* ------------------------------------------------------------------ *)
\* the place of a step of the handler in the order of its calls
Rank(pc) ==
    CASE pc = "createNamespace" -> 1
      [] pc = "createServiceAccount" -> 2
      [] pc = "createRole" -> 3
      [] pc = "createRoleBinding" -> 4
      [] pc = "createResourceQuota" -> 5
      [] pc = "getCapacityChecker" -> 6
      [] pc = "updateCapacityChecker" -> 7
      [] pc = "generateToken" -> 8
      [] OTHER -> 0
\* the step at rank k of handler h has made its object
Mutated(h, k) ==
    CASE k = 1 -> /\ namespaces' \ namespaces = {TenantNamespace(rUser[h])}
                  /\ ~HasNamespace(rUser[h])
      [] k = 2 -> \E a \in serviceAccounts' \ serviceAccounts : a.name = rUser[h]
      [] k = 3 -> Cardinality(roles') = Cardinality(roles) + 1
      [] k = 4 -> \E b \in roleBindings' \ roleBindings :
                     b.name = BindingPrefix \o rUser[h]
      [] k = 5 -> Cardinality(quotas') = Cardinality(quotas) + 1
      [] k = 6 -> crb.exists /\ UNCHANGED clusterVars
      [] k = 7 -> /\ Len(crb'.subjects) = Len(crb.subjects) + 1
                  /\ crb'.subjects[Len(crb'.subjects)].name = rUser[h]
      [] OTHER -> okCount'[rUser[h]] = okCount[rUser[h]] + 1
\* some handler takes the step at rank k
StepAt(k) == \E h \in Handlers : Rank(rpc[h]) = k /\ rpc'[h] # rpc[h]

\* C20: the handler makes the namespace, the ServiceAccount, the Role, the
\* RoleBinding, the ResourceQuota, reads and updates the capacity-checker
\* binding and then requests the token, each step started only from the one
\* before it and only when that one made its object without error; a step
\* that fails answers with an error, changes nothing and ends the request;
\* and no object of these kinds changes outside the step that makes it.
C20_RegisterOrder ==
    /\ [][\A h \in Handlers :
             (rpc'[h] # rpc[h] /\ Rank(rpc[h]) >= 1)
                => IF rResp'[h].status = "error"
                   THEN rpc'[h] = "done" /\ UNCHANGED <<clusterVars, okCount>>
                   ELSE /\ Mutated(h, Rank(rpc[h]))
                        /\ IF Rank(rpc[h]) = 8
                           THEN rpc'[h] = "done" /\ IsSuccess(rResp'[h])
                           ELSE Rank(rpc'[h]) = Rank(rpc[h]) + 1]_vars
    /\ [][\A h \in Handlers :
             (rpc'[h] # rpc[h] /\ Rank(rpc'[h]) >= 1)
                => IF Rank(rpc'[h]) = 1 THEN rpc[h] = "exists"
                   ELSE Rank(rpc[h]) = Rank(rpc'[h]) - 1]_vars
    /\ [][/\ namespaces' # namespaces => StepAt(1)
          /\ serviceAccounts' # serviceAccounts => StepAt(2)
          /\ roles' # roles => StepAt(3)
          /\ roleBindings' # roleBindings => StepAt(4)
          /\ quotas' # quotas => StepAt(5)
          /\ crb' # crb => StepAt(7)
          /\ okCount' # okCount => StepAt(8)]_vars
    /\ [](\A h \in Handlers :
             LET k == IF rpc[h] = "done" /\ IsSuccess(rResp[h]) THEN 9
                      ELSE Rank(rpc[h])
             IN /\ k >= 2 => HasNamespace(rUser[h])
                /\ k >= 3 => \E a \in serviceAccounts : a.name = rUser[h]
                /\ k >= 5 => \E b \in roleBindings : b.name = BindingPrefix \o rUser[h]
                /\ k >= 8 => \E i \in 1 .. Len(crb.subjects) :
                                crb.subjects[i].name = rUser[h]
                /\ k >= 9 => okCount[rUser[h]] >= 1)

\* C20 witness: a request for alice went through every step and was answered
\* with success: her namespace, ServiceAccount and RoleBinding are stored and
\* she is a subject of the capacity-checker binding.
C20_Witness ==
    \E h \in Handlers :
        /\ rpc[h] = "done"
        /\ IsSuccess(rResp[h])
        /\ rUser[h] = alice
        /\ TenantNamespace(alice) \in namespaces
        /\ TenantBinding(alice) \in roleBindings
        /\ \E a \in serviceAccounts : a.name = alice
        /\ \E q \in quotas : q.ns = NamespacePrefix \o alice
        /\ \E i \in 1 .. Len(crb.subjects) : crb.subjects[i].name = alice
        /\ okCount[alice] = 1

(* ------------------------------------------------------------------ *)
(* C21                                                                 *)
(* ------------------------------------------------------------------ *)
\* the objects a registration makes inside namespaces
NamespacedTenantObjects == <<serviceAccounts, roles, roleBindings, quotas>>
\* a step of the handler after the namespace create ends the request of h
\* with an error
FailsAfterNamespace(h) ==
    /\ Rank(rpc[h]) >= 2
    /\ rpc'[h] = "done"
    /\ rResp'[h].status = "error"
\* u has a namespace and less than a complete registration leaves
PartlyProvisioned(u) ==
    /\ HasNamespace(u)
    /\ \/ [ns |-> NamespacePrefix \o u, name |-> u] \notin serviceAccounts
       \/ [ns |-> NamespacePrefix \o u, name |-> UserRoleName] \notin roles
       \/ TenantBinding(u) \notin roleBindings
       \/ [ns |-> NamespacePrefix \o u, name |-> QuotaName] \notin quotas
       \/ ~\E i \in 1 .. Len(crb.subjects) : crb.subjects[i].name = u

IsBindingNotFoundError(r) ==
    /\ r.status = "error"
    /\ r.message = "failed to add user to capacity checker"
    /\ r.cause = "could not find ClusterRoleBinding"

\* C22: when the handler comes to AddUserToCapacityChecker and the
\* ClusterRoleBinding does not exist, the request ends there with the
\* not-found error of that call and no object changes; no step of the
\* handler brings the ClusterRoleBinding into existence; and no request is
\* answered with success while it does not exist.
C22_MissingListNotFound ==
    /\ [][\A h \in Handlers :
             (rpc[h] = "getCapacityChecker" /\ rpc'[h] # rpc[h] /\ ~crb.exists)
                => /\ rpc'[h] = "done"
                   /\ IsBindingNotFoundError(rResp'[h])
                   /\ UNCHANGED <<clusterVars, okCount>>]_vars
    /\ [][~crb.exists => ~crb'.exists]_vars
    /\ [](\A h \in Handlers :
             (rpc[h] = "done" /\ IsSuccess(rResp[h])) => crb.exists)

\* C22 witness: the ClusterRoleBinding does not exist, and the request for
\* alice, whose namespace and quota were made, was answered with the
\* not-found error.
C22_Witness ==
    \E h \in Handlers :
        /\ rpc[h] = "done"
        /\ rUser[h] = alice
        /\ IsBindingNotFoundError(rResp[h])
        /\ ~crb.exists
        /\ HasNamespace(alice)
        /\ \E q \in quotas : q.ns = NamespacePrefix \o alice

(* ------------------------------------------------------------------ *)
(* C23                                                                 *)
(* ------------------------------------------------------------------ *)
\* no (name, namespace) pair is twice among the subjects
NoDuplicateSubjects ==
    \A i, j \in 1 .. Len(crb.subjects) :
        i # j => crb.subjects[i] # crb.subjects[j]
IsDuplicateSubjectError(r) ==
    /\ r.status = "error"
    /\ r.cause = "user already exists in cluster role binding"

IsSubject(u) == \E i \in 1 .. Len(crb.subjects) : crb.subjects[i].name = u
IsStaleUpdateError(r) ==
    /\ r.status = "error"
    /\ r.code = 500
    /\ r.message = "failed to add user to capacity checker"
    /\ r.cause = "Conflict"

\* C24: an Update that carries subjects read before another request changed
\* the ClusterRoleBinding is refused: the request ends with an error that
\* names the conflict and the stored subjects stay; so every tenant whose
\* registration was answered with success is a subject, whatever other
\* requests were appending at the same time.
C24_StaleAppendSurfaced ==
    /\ [][\A h \in Handlers :
             (/\ rpc[h] = "updateCapacityChecker"
              /\ rpc'[h] # rpc[h]
              /\ crb.subjects # rCrb[h].subjects)
                => /\ rpc'[h] = "done"
                   /\ IsStaleUpdateError(rResp'[h])
                   /\ UNCHANGED crb]_vars
    /\ [](\A u \in AllNames : okCount[u] >= 1 => IsSubject(u))

\* C24 witness: the requests for alice and bob read the same subjects; one
\* appended and was answered with success, the other was answered with the
\* conflict, and only the first is a subject.
C24_Witness ==
    \E h1, h2 \in Handlers :
        /\ h1 # h2
        /\ rpc[h1] = "done" /\ IsSuccess(rResp[h1])
        /\ rpc[h2] = "done" /\ IsStaleUpdateError(rResp[h2])
        /\ rCrb[h1].rv = rCrb[h2].rv
        /\ IsSubject(rUser[h1])
        /\ ~IsSubject(rUser[h2])

(* ------------------------------------------------------------------ *)
(* C25                                                                 *)
(* ------------------------------------------------------------------ *)
\* the pair of tenant u
PairOf(u) == Subject(u, NamespacePrefix \o u)
\* the run of the administrator ends with this step
RunEnds(op) == adm.op = op /\ adm.pc # "done" /\ adm'.pc = "done"
\* the run in progress repeats the run before it
RepeatsRun ==
    adm.prev.op = adm.op /\ adm.prev.user = adm.user /\ adm.prev.ns = adm.ns

\* C25: when a run of delete-user.sh for a tenant ends, the pair of the
\* tenant is not among the subjects; a run that repeats the run before it
\* ends with status 0; and the step that ends a run for a tenant whose pair
\* is not among the subjects leaves them as they are.  The same holds for
\* RemoveUserFromCapacityChecker whenever its Update is accepted.
C25_DeregisterIdempotent ==
    [][/\ RunEnds("script")
            => /\ ~SeqContains(crb'.subjects, PairOf(adm.user))
               /\ RepeatsRun => adm'.exit = 0
               /\ ~SeqContains(crb.subjects, PairOf(adm.user)) => UNCHANGED crb
       /\ (RunEnds("remove") /\ crb.exists /\ ~Stale(adm.rv))
            => /\ adm'.exit = 0
               /\ ~SeqContains(crb'.subjects, Subject(adm.user, adm.ns))
               /\ ~SeqContains(crb.subjects, Subject(adm.user, adm.ns))
                      => UNCHANGED crb]_vars

(* ------------------------------------------------------------------ *)
(* C26                                                                 *)
(* ------------------------------------------------------------------ *)
\* the namespace of u with its labels and the four objects of u in it
FullyProvisioned(u) ==
    /\ TenantNamespace(u) \in namespaces
    /\ [ns |-> NamespacePrefix \o u, name |-> u] \in serviceAccounts
    /\ [ns |-> NamespacePrefix \o u, name |-> UserRoleName] \in roles
    /\ TenantBinding(u) \in roleBindings
    /\ [ns |-> NamespacePrefix \o u, name |-> QuotaName] \in quotas

\* C26: when a request for U has been answered with success, the namespace
\* mc-U exists with the labels app=kubecraft and user=U and holds the
\* ServiceAccount U, the Role minecraft-manager, the RoleBinding binding-U
\* and the ResourceQuota mc-compute-resources.
C26_SuccessMeansProvisioned ==
    \A h \in Handlers :
        (rpc[h] = "done" /\ IsSuccess(rResp[h])) => FullyProvisioned(rUser[h])

(* ------------------------------------------------------------------ *)
(* C27                                                                 *)
(* ------------------------------------------------------------------ *)
\* C27: the Update of a request for U that is accepted leaves the subjects
\* that were stored in place and adds one subject to them, the pair
\* (U, mc-U).
C27_AppendAddsOwnPair ==
    [][\A h \in Handlers :
          (rpc[h] = "updateCapacityChecker" /\ rpc'[h] = "generateToken")
             => crb'.subjects = Append(crb.subjects, PairOf(rUser[h]))]_vars

(* ------------------------------------------------------------------ *)
(* C28                                                                 *)
(* ------------------------------------------------------------------ *)
\* the StatefulSets of a namespace
WorkloadsIn(ns) == { s \in statefulsets : s.ns = ns }

\* C28: no tenant namespace ever holds more than one StatefulSet.
C28_OneWorkloadPerTenant ==
    \A ns \in TenantNamespaces : Cardinality(WorkloadsIn(ns)) <= 1

(* ------------------------------------------------------------------ *)
(* C29                                                                 *)
(* ------------------------------------------------------------------ *)
\* the error names a failure of the API server
ReflectsFailure(err) == \E i \in 1 .. Len(err) : err[i] \in Faults
\* the error names the clean-up of the service
ReflectsCleanup(err) ==
    \E i \in 1 .. Len(err) : err[i] = "failed to delete server (service)"

\* C29: a clean-up inside Create whose delete was refused, so that the
\* service is still there, shows in the error Create returns; and a poll of
\* WaitForReady whose lookup of a ready instance failed shows in the error
\* of the command.
C29_NoSwallowedFailure ==
    [][\A c \in Clients :
          /\ (cli[c].pc = "cleanupService" /\ cli'[c].pc = "done" /\ HasEndpoint(c)')
                => ReflectsCleanup(cli'[c].err)
          /\ (/\ cli[c].pc = "waitForReady"
              /\ cli'[c] # cli[c]
              /\ InstanceReady(c)
              /\ cli'[c].attempt # cli[c].attempt)
                => cli'[c].pc = "done" /\ ReflectsFailure(cli'[c].err)]_vars

(* ------------------------------------------------------------------ *)
(* C30                                                                 *)
(* ------------------------------------------------------------------ *)
\* what went wrong with the request of h, read off the request and the call
\* that failed
FailureClass(h) ==
    IF rReq[h].method # "POST" THEN "method"
    ELSE IF ~rReq[h].jsonOk \/ ~WellFormedName(rReq[h].username) THEN "validation"
    ELSE IF \/ rResp[h].message = "Username already registered"
            \/ rResp[h].cause = "namespace already exists"
    THEN "conflict"
    ELSE "internal"

\* C30: every request that is not answered with success is answered with
\* status "error" and the code of its failure: 400 for a body that is not
\* JSON or a username that is not valid, 409 for a name that is taken, 500
\* for an internal failure, and a code of the caller's errors, 400 to 499,
\* for a wrong method.
C30_CodeIdentifiesClass ==
    \A h \in Handlers :
        (rpc[h] = "done" /\ ~IsSuccess(rResp[h]))
            => /\ rResp[h].status = "error"
               /\ CASE FailureClass(h) = "method" -> rResp[h].code \in 400 .. 499
                    [] FailureClass(h) = "validation" -> rResp[h].code = 400
                    [] FailureClass(h) = "conflict" -> rResp[h].code = 409
                    [] OTHER -> rResp[h].code = 500

(* ------------------------------------------------------------------ *)
(* Commands of several tenants, one after the other                    *)
(* ------------------------------------------------------------------ *)
\* no command of another client is in progress
Alone(c) == \A d \in Clients \ {c} : cli[d].pc = "idle"

\* Every tenant has created a server while at most RunningServers ran.  The
\* servers of the clients are stopped; of the servers of the other tenants
\* RunningServers or one more run, which is as many as Create admits one
\* after the other.
InitSeq ==
    \E running \in RunningServers .. RunningServers + 1 :
    LET n == RunningServers + 1 + NumClients
    IN /\ TenantsOf(n)
       /\ services = { ServiceOf(NamespacePrefix \o PreName(i), srv, McNodePortRangeMin + i) :
                           i \in 0 .. n - 1 }
       /\ statefulsets = { StatefulSetOf(NamespacePrefix \o PreName(i), srv,
                                         IF i < running THEN 1 ELSE 0) : i \in 0 .. n - 1 }
       /\ pods = { PodOf(NamespacePrefix \o PreName(i), srv, "Running", TRUE) :
                       i \in 0 .. running - 1 }
       /\ pvcs = { PvcOf(NamespacePrefix \o PreName(i), srv) : i \in 0 .. n - 1 }
       /\ RegIdle
       /\ ClientsOf(RunningServers + 1)

NextSeq ==
    \/ \E c \in Clients : Alone(c) /\ execute(c, srv)
    \/ \E c \in Clients : Alone(c) /\ executeStart(c, srv)
    \/ \E c \in Clients : Alone(c) /\ executeStop(c, srv)
    \/ \E c \in Clients : Alone(c) /\ executeDelete(c, srv, srv)
    \/ \E c \in Clients : ServerExists(c)
    \/ \E c \in Clients : CheckNodeCapacity(c)
    \/ \E c \in Clients : AllocateNodePort(c)
    \/ \E c \in Clients : CreateServerService(c)
    \/ \E c \in Clients : CreateServerStatefulSet(c)
    \/ \E c \in Clients : CreateServerCleanup(c)
    \/ \E c \in Clients : WaitForReady(c)
    \/ \E c \in Clients : ScaleServerGet(c)
    \/ \E c \in Clients : ScaleServerUpdate(c)
    \/ \E c \in Clients : GetNodePort(c)
    \/ \E c \in Clients : DeleteServerStatefulSet(c)
    \/ \E c \in Clients : DeleteServerService(c)
    \/ \E c \in Clients : DeleteServerPvc(c)
    \/ \E c \in Clients : Exit(c)
    \/ \E s \in statefulsets : StatefulSetCreatesPod(s)
    \/ \E p \in pods : PodRuns(p)
    \/ \E p \in pods : PodBecomesReady(p)
    \/ \E p \in pods : PodRemoved(p)

SpecSeq == InitSeq /\ [][NextSeq]_vars

(* ------------------------------------------------------------------ *)
(* Delete, again and again                                             *)
(* ------------------------------------------------------------------ *)
\* Every client is a tenant with a running server, and the only command
\* given is Delete, so what is left of a server is what a Delete left.
InitDelete ==
    /\ ClusterWith(NumClients, NumClients)
    /\ RegIdle
    /\ ClientsOf(0)

NextDelete ==
    \/ \E c \in Clients, n \in ServerNames : \E input \in {n, <<>>} : executeDelete(c, n, input)
    \/ \E c \in Clients : ServerExists(c)
    \/ \E c \in Clients : DeleteServerStatefulSet(c)
    \/ \E c \in Clients : DeleteServerService(c)
    \/ \E c \in Clients : DeleteServerPvc(c)
    \/ \E c \in Clients : Exit(c)
    \/ \E p \in pods : PodRemoved(p)

SpecDelete == InitDelete /\ [][NextDelete]_vars

(* ------------------------------------------------------------------ *)
(* A tenant removed with the script and registered again               *)
(* ------------------------------------------------------------------ *)
\* Requests that register a name arrive one after the other, and between
\* two of them the administrator runs delete-user.sh, once, for any name.
InitReuse ==
    /\ TenantObjects(ListTenants)
    /\ crb = [exists |-> TRUE, rv |-> 0, subjects |-> PreSubjects(ListTenants)]
    /\ services = { ServiceOf(NamespacePrefix \o PreName(0), srv, McNodePortRangeMin) }
    /\ statefulsets = { StatefulSetOf(NamespacePrefix \o PreName(0), srv, 0) }
    /\ pods = {}
    /\ pvcs = { PvcOf(NamespacePrefix \o PreName(0), srv) }
    /\ RegIdle
    /\ ClientsOf(0)

NextReuse ==
    \/ \E u \in RemovedNames : adm.runs = 0 /\ rpc[1] = "idle" /\ ScriptStart(u)
    \/ ScriptCheckNamespace
    \/ ScriptDeleteNamespace
    \/ ScriptGetSubjects
    \/ ScriptPatch
    \/ AdminReturn
    \/ /\ UNCHANGED <<cli, adm>>
       /\ \/ \E u \in RemovedNames : adm.pc = "idle" /\ RegReceive(1, "POST", TRUE, u)
          \/ RegCount(1)
          \/ RegExists(1)
          \/ CreateNamespace(1)
          \/ CreateServiceAccount(1)
          \/ CreateRole(1)
          \/ CreateRoleBinding(1)
          \/ CreateResourceQuota(1)
          \/ AddUserGet(1)
          \/ AddUserUpdate(1)
          \/ RegGenerateToken(1)
          \/ RegReturn(1)

SpecReuse == InitReuse /\ [][NextReuse]_vars

(* ------------------------------------------------------------------ *)
(* C31                                                                 *)
(* ------------------------------------------------------------------ *)
\* the workloads of the cluster by their desired replica count, and the pods
\* that are no running workload instance
StoppedWorkloads == { s \in statefulsets : s.replicas = 0 }
PendingInstances == { p \in pods : p.app = "minecraft" /\ p.phase # "Running" }
UnlabelledPods == { p \in pods : p.app # "minecraft" }
CheckSummed(c) ==
    /\ cli[c].cmd = "create"
    /\ \/ cli[c].pc = "allocateNodePort"
       \/ cli[c].pc = "done" /\ IsInsufficientCapacityError(cli[c].err)

\* C31: the sum the admission check computes is the memory request (2048 MiB,
\* not the 4096 MiB limit) of every workload instance that is in the running
\* phase when the pods are listed, and nothing else: stopped workloads,
\* instances that do not run yet and pods without the workload label add
\* nothing to it.
C31_SumOfRunningRequests ==
    \A c \in Clients :
       CheckSummed(c) =>
          /\ cli[c].total = 2048 * Cardinality(RunningWorkloads)
          /\ cli[c].total = RunningRequestsMi

\* C31 witness: three instances run, twelve workloads are stopped, one
\* instance is pending and a pod without the workload label runs; the check
\* summed 6144 MiB and passed.
C31_Witness ==
    /\ Cardinality(RunningWorkloads) = 3
    /\ Cardinality(StoppedWorkloads) = 12
    /\ PendingInstances # {}
    /\ UnlabelledPods # {}
    /\ cli[1].pc = "allocateNodePort"
    /\ cli[1].total = 6144

(* ------------------------------------------------------------------ *)
(* C32                                                                 *)
(* ------------------------------------------------------------------ *)
\* the desired replica counts stored for workload name of namespace ns, and
\* whether an instance of the namespace is ready
DesiredReplicas(ns, name) == { s.replicas : s \in { t \in statefulsets : t.ns = ns /\ t.name = name } }
SomeInstanceReady(ns) == \E p \in pods : p.ns = ns /\ p.ready

\* C32: every row List builds shows the status "stopped" exactly when the
\* desired replica count of the workload is 0 and "running" otherwise; the
\* readiness of the instance plays no part, so a workload whose instance
\* never became ready is listed as running.
C32_StatusFromReplicas ==
    \A c \in Clients :
       cli[c].cmd = "list" =>
          \A i \in 1 .. Len(cli[c].listed) :
             LET row == cli[c].listed[i]
             IN /\ row.status \in {"stopped", "running"}
                /\ row.status = "stopped" <=> DesiredReplicas(ClientNamespace(c), row.name) = {0}

\* C32 witness: List returned a row that shows srv running although the
\* desired count is 1 and no instance of the tenant is ready.
C32_Witness ==
    /\ cli[1].cmd = "list"
    /\ cli[1].pc = "done"
    /\ cli[1].err = <<>>
    /\ \E i \in 1 .. Len(cli[1].listed) :
          /\ cli[1].listed[i].name = srv
          /\ cli[1].listed[i].status = "running"
    /\ DesiredReplicas(ClientNamespace(1), srv) = {1}
    /\ ~SomeInstanceReady(ClientNamespace(1))

(* ------------------------------------------------------------------ *)
(* C33                                                                 *)
(* ------------------------------------------------------------------ *)
\* C33: in every reachable state, whatever the interleaving of the
\* registrations in progress, at most 15 tenant namespaces exist.
C33_TenantCeilingHolds == TenantCount <= 15

(* ------------------------------------------------------------------ *)
(* C34                                                                 *)
(* ------------------------------------------------------------------ *)
\* the namespaces of the objects and of the subjects a step adds
CreatedIn ==
    { o.ns : o \in (serviceAccounts' \ serviceAccounts) \cup (roles' \ roles)
                      \cup (roleBindings' \ roleBindings) \cup (quotas' \ quotas) }
SubjectsOf(binding) == { binding.subjects[i] : i \in 1 .. Len(binding.subjects) }
SubjectsAdded == IF crb' = NoBinding THEN {} ELSE SubjectsOf(crb') \ SubjectsOf(crb)

\* C34: while registrations of different tenants are handled at the same
\* time, every identity, role, role binding and quota a step of the request
\* for U creates is created in mc-U, and every subject such a step adds to
\* the ClusterRoleBinding is the pair (U, mc-U).
C34_ObjectsInOwnNamespace ==
    [][\A h \in Handlers :
          (rpc[h] # rpc'[h] /\ rpc[h] # "idle")
             => /\ CreatedIn \subseteq {NamespacePrefix \o rUser[h]}
                /\ SubjectsAdded \subseteq {PairOf(rUser[h])}]_vars

(* ------------------------------------------------------------------ *)
(* C35                                                                 *)
(* ------------------------------------------------------------------ *)
\* C35: when the commands are given one after the other, the memory
\* requests of the running workload instances never add up to more than
\* 14336 MiB, whatever sequence of Create, Stop, Start and Delete ran.
C35_RunningWithinTotal == RunningRequestsMi <= 14336

(* ------------------------------------------------------------------ *)
(* C36                                                                 *)
(* ------------------------------------------------------------------ *)
\* Delete of client c has returned and no call it made was failed by the
\* API server
DeleteRanUnhindered(c) == DeleteReturned(c) /\ Cause(cli[c].err) \notin Faults

\* C36: whatever an earlier Delete of the name left behind, when a Delete
\* whose calls the API server did not fail has returned, neither the
\* endpoint object nor the storage claim of that name is left in the
\* namespace.
C36_LaterDeleteCleansUp ==
    \A c \in Clients : DeleteRanUnhindered(c) => ~HasEndpoint(c) /\ ~HasClaim(c)

(* ------------------------------------------------------------------ *)
(* C37                                                                 *)
(* ------------------------------------------------------------------ *)
\* the request of h registers the tenant the last run of delete-user.sh was
\* given, and has been answered
AnsweredAfterDeregister(h) ==
    /\ rpc[h] = "done"
    /\ adm.pc = "idle"
    /\ adm.prev.op = "script"
    /\ adm.prev.user = rUser[h]

\* C37: below the tenant ceiling, a Register of U that follows a run of
\* delete-user.sh for U is answered with success; only a Register of U that
\* follows such a success is refused, with the conflict error.
C37_NameReusable ==
    \A h \in Handlers :
       (AnsweredAfterDeregister(h) /\ TenantCount < 15)
          => \/ IsSuccess(rResp[h])
             \/ IsConflictError(rResp[h]) /\ okCount[rUser[h]] >= 1

(* ------------------------------------------------------------------ *)
(* C38                                                                 *)
(* ------------------------------------------------------------------ *)
\* the endpoint objects a step makes and removes
EndpointsMade == services' \ services
EndpointsRemoved == services \ services'

\* C38: the ports the allocator counts as occupied are at every moment the
\* ports the endpoint objects hold.  The port of an endpoint object a step
\* of Create makes is occupied from then on, no step of Stop or Start changes
\* the occupied ports, and the port of an endpoint object a step of Delete
\* removes is no longer occupied, so the allocator may return it again.
C38_TakenIsHeld ==
    /\ [](OccupiedPorts = AssignedPorts)
    /\ [][/\ \A s \in EndpointsMade : s.nodePort \in OccupiedPorts'
          /\ \A s \in EndpointsRemoved :
                /\ s.nodePort \notin OccupiedPorts'
                /\ FirstFreePort(OccupiedPorts') <= s.nodePort
                /\ FirstFreePort(OccupiedPorts') # 0
          /\ (\A c \in Clients : cli[c].cmd \in {"stop", "start"})
                => OccupiedPorts' = OccupiedPorts]_vars

\* C38 witness: srv was created on port 30005 and deleted without error,
\* and the allocator of the Create that follows returned 30005 again.
C38_Witness ==
    /\ cli[1].prev.ok
    /\ cli[1].prev.cmd = "delete"
    /\ cli[1].cmd = "create"
    /\ cli[1].pc = "createService"
    /\ cli[1].port = 30005
    /\ 30005 \notin AssignedPorts

(* ------------------------------------------------------------------ *)
(* C39                                                                 *)
(* ------------------------------------------------------------------ *)
\* the errors CheckNodeCapacity returns
AdmissionFailures ==
    {<<"not enough ram available to allocate to server">>}
       \cup { <<"failed to list pods", f>> : f \in Faults }
\* the admission check of the Create of c fails in this step
AdmissionFails(c) ==
    /\ cli[c].cmd = "create"
    /\ cli[c].pc = "checkNodeCapacity"
    /\ cli'[c].pc = "done"

\* C39: when the admission check of a Create fails, Create ends in that
\* step with the error of the check as it is, no message put in front of it;
\* the step changes no object of the cluster, so no endpoint object and no
\* stateful-workload object is made, and no port has been allocated.
C39_AdmissionFailureNoEffect ==
    [][\A c \in Clients :
          AdmissionFails(c)
             => /\ cli'[c].err \in AdmissionFailures
                /\ cli'[c].port = 0
                /\ UNCHANGED clusterVars]_vars

\* C39 witness: the Create of a tenant was refused for lack of memory; it
\* holds no port and its namespace has neither a service nor a StatefulSet.
C39_Witness ==
    \E c \in Clients :
       /\ cli[c].cmd = "create"
       /\ cli[c].pc = "done"
       /\ IsInsufficientCapacityError(cli[c].err)
       /\ cli[c].port = 0
       /\ ~HasEndpoint(c)
       /\ ~HasStatefulSet(c)

(* ------------------------------------------------------------------ *)
(* C40                                                                 *)
(* ------------------------------------------------------------------ *)
\* the Update of RemoveUserFromCapacityChecker is accepted in this step
RemovalAccepted == RunEnds("remove") /\ adm'.exit = 0
\* the subjects without the entries of the pair (name, namespace)
WithoutPair(subjects, u, ns) == SelectSeq(subjects, LAMBDA x : x # Subject(u, ns))

\* C40: the accepted Update of RemoveUserFromCapacityChecker for tenant U
\* takes from the subjects the entries whose name and namespace are both
\* U's and keeps every other entry, in its place; it changes no namespace,
\* no object of a namespace and no workload.
C40_RemovesOwnPairOnly ==
    [][RemovalAccepted
          => /\ crb'.subjects = WithoutPair(crb.subjects, adm.user, adm.ns)
             /\ \A i \in 1 .. Len(crb.subjects) :
                   crb.subjects[i].name # adm.user
                      => SeqContains(crb'.subjects, crb.subjects[i])
             /\ UNCHANGED <<namespaces, serviceAccounts, roles, roleBindings, quotas,
                            serverVars>>]_vars

\* C40 witness: t00 was removed from the subjects with its own namespace;
\* t01 is still a subject, and the namespace of t00 and its server srv are
\* still there.
C40_Witness ==
    /\ adm.pc = "done"
    /\ adm.op = "remove"
    /\ adm.exit = 0
    /\ adm.user = PreName(0)
    /\ adm.ns = NamespacePrefix \o PreName(0)
    /\ ~IsSubject(PreName(0))
    /\ IsSubject(PreName(1))
    /\ HasNamespace(PreName(0))
    /\ StatefulSetOf(NamespacePrefix \o PreName(0), srv, 0) \in statefulsets
    /\ ServiceOf(NamespacePrefix \o PreName(0), srv, McNodePortRangeMin) \in services

====
